---------------------------- MODULE Spec2Model ----------------------------
(***************************************************************************)
(* Fallback-driven execution pipeline of AutoPromptX: the agents, the      *)
(* ordered candidate list, the output validator and the dummy generator.   *)
(* Texts are sequences of one-character strings, so that strip(), lower()  *)
(* and the substring test are computed and not assumed.                    *)
(***************************************************************************)
EXTENDS Integers, Sequences, FiniteSets, TLC

VARIABLES
    agent_class,      \* agent.__class__.__name__
    model_name,       \* BaseAgent.model_name, the selected backend
    model,            \* BaseAgent.model: the backend the pipeline was loaded from, or None
    input_text,       \* the text handed to run_with_fallback / run
    fallback_config,  \* content of the JSON file at FALLBACK_CONFIG_PATH
    pc,               \* position inside run_with_fallback
    candidates,       \* the list the for loop of run_with_fallback iterates
    idx,              \* position of the for loop in candidates
    output,           \* local variable output of run_with_fallback
    log,              \* every agent.run call made so far, in order
    result,           \* the text returned to the caller
    raised,           \* the exception that reached the caller, or None
    entry_model_name, \* model_name when run_with_fallback was entered
    v_case,           \* validator harness: how the input string was built
    v_output,         \* validator harness: the string given to is_valid_output
    v_checked,        \* validator harness: is_valid_output has returned
    v_verdict,        \* validator harness: what it returned
    dummy_calls,      \* dummy generator harness: the calls made, with their results
    c_agent_of,       \* concurrent calls: the agent object each call was given
    c_agents,         \* concurrent calls: the agent objects (class, model_name, model)
    c_pc,             \* concurrent calls: position of each call in run_with_fallback
    c_cands,          \* concurrent calls: each call's candidate list
    c_idx,            \* concurrent calls: each call's position in its list
    c_out,            \* concurrent calls: each call's local variable output
    c_log,            \* concurrent calls: the runs each call made, in order
    c_seen,           \* concurrent calls: for each run, whose set_model it ran under
    c_result,         \* concurrent calls: what each call returned
    c_last_set,       \* concurrent calls: per agent, the latest set_model (who, what)
    pl_model,         \* ChainPlanner.model: the backend the pipeline was loaded from, or None
    pl_count,         \* planner: number of suggest_chain calls made
    pl_goal,          \* planner: the goal of the latest call
    pl_outcome,       \* planner: what the pipeline did in the latest call
    pl_ret,           \* planner: the dict the latest call returned
    pl_exc,           \* planner: the exception that left the latest call, or None
    pl_invoked,       \* planner: the pipeline invocations of the latest call, in order
    rt_config,        \* router: content of the JSON file at AGENT_CONFIG_PATH
    rt_calls,         \* router: the calls made, with their results
    mm_model,         \* ModelManager.current_model
    mm_params,        \* ModelManager.current_params
    mm_files,         \* ModelManager: the profile files in config_dir, by profile name
    mm_ret,           \* ModelManager: what the latest call returned
    mm_exc,           \* ModelManager: the exception the latest call raised, or None
    mm_held,          \* ModelManager: the dict a caller got from get_all_parameters
    mm_last,          \* ModelManager: the latest call and the state it started from
    mm_snap,          \* ModelManager: per profile, model and parameters at its latest save
    mm_steps,         \* ModelManager: number of calls made
    pm_rows,          \* PromptManager: the rows of table saved_prompts
    pm_next_id,       \* PromptManager: the id AUTOINCREMENT gives the next row
    pm_clock,         \* PromptManager: datetime.now(), as a count of calls
    pm_ret,           \* PromptManager: what the latest call returned
    pm_exc,           \* PromptManager: the exception the latest call raised, or None
    pm_last,          \* PromptManager: the latest call and the rows it started from
    tm_files,         \* TemplateManager: the .txt files of templates_dir, by template name
    tm_cache,         \* TemplateManager._templates_cache, content by template name
    tm_ret,           \* TemplateManager: what the latest call returned
    tm_exc,           \* TemplateManager: the exception the latest call raised, or None
    tm_last,          \* TemplateManager: the latest call and the files it started from
    tm_was_cached,    \* TemplateManager: the names the cache has held at some time
    tm_steps,         \* TemplateManager: number of calls made
    cli_args,         \* cli/run_chain.py: the parsed arguments (agent, mode, model)
    cli_config,       \* cli/run_chain.py: content of the file the router reads
    cli_set,          \* cli/run_chain.py: the model main selected before the call
    cli_report,       \* cli/run_chain.py: what main printed
    svc_request,      \* agent service: the latest request
    svc_payload,      \* agent service: the dict run_agent returned for it
    svc_exc,          \* agent service: the exception that left run_agent, or None
    svc_constructed,  \* agent service: the agents run_agent constructed for it
    svc_runs,         \* agent service: the agent.run calls made for it
    svc_count,        \* agent service: number of requests served
    im_pc,            \* interactive_mode: at prompt_input, in the rest of the loop body, or left
    im_event,         \* interactive_mode: what prompt_input gave the pass under way
    im_last,          \* interactive_mode: what the latest pass of the loop met and did
    im_eof,           \* interactive_mode: standard input has reached its end
    im_calls,         \* interactive_mode: calls of the callback, counted up to MaxCounted
    im_errors         \* interactive_mode: print_error calls, counted up to MaxCounted

orchVars == <<agent_class, model_name, model, input_text, fallback_config, pc,
              candidates, idx, output, log, result, raised, entry_model_name>>
validatorVars == <<v_case, v_output, v_checked, v_verdict>>
dummyVars == <<dummy_calls>>
concVars == <<c_agent_of, c_agents, c_pc, c_cands, c_idx, c_out, c_log, c_seen,
              c_result, c_last_set>>
planVars == <<pl_model, pl_count, pl_goal, pl_outcome, pl_ret, pl_exc, pl_invoked>>
routerVars == <<rt_config, rt_calls>>
mmVars == <<mm_model, mm_params, mm_files, mm_ret, mm_exc, mm_held, mm_last, mm_snap,
            mm_steps>>
laterVars == <<planVars, routerVars, mmVars>>
pmVars == <<pm_rows, pm_next_id, pm_clock, pm_ret, pm_exc, pm_last>>
tmVars == <<tm_files, tm_cache, tm_ret, tm_exc, tm_last, tm_was_cached, tm_steps>>
cliVars == <<cli_args, cli_config, cli_set, cli_report>>
svcVars == <<svc_request, svc_payload, svc_exc, svc_constructed, svc_runs, svc_count>>
imVars == <<im_pc, im_event, im_last, im_eof, im_calls, im_errors>>
extraVars == <<pmVars, tmVars, cliVars, svcVars, imVars>>
vars == <<orchVars, validatorVars, dummyVars, concVars, laterVars, extraVars>>

\* what the actions of one part leave alone
orchOthers == <<validatorVars, dummyVars, concVars, laterVars, extraVars>>
validatorOthers == <<orchVars, dummyVars, concVars, laterVars, extraVars>>
dummyOthers == <<orchVars, validatorVars, concVars, laterVars, extraVars>>
concOthers == <<orchVars, validatorVars, dummyVars, laterVars, extraVars>>

None == "None"

-----------------------------------------------------------------------------
(* Text primitives: str.strip(), str.lower(), the `in` substring test.     *)

Whitespace == {" ", "\t", "\n", "\r"}

UpperCase == <<"A", "B", "C", "D", "E", "F", "G", "H", "I", "J", "K", "L", "M",
               "N", "O", "P", "Q", "R", "S", "T", "U", "V", "W", "X", "Y", "Z">>
LowerCase == <<"a", "b", "c", "d", "e", "f", "g", "h", "i", "j", "k", "l", "m",
               "n", "o", "p", "q", "r", "s", "t", "u", "v", "w", "x", "y", "z">>

LowerChar(c) ==
    IF \E k \in 1..Len(UpperCase) : UpperCase[k] = c
    THEN LowerCase[CHOOSE k \in 1..Len(UpperCase) : UpperCase[k] = c]
    ELSE c

Lower(s) == [k \in 1..Len(s) |-> LowerChar(s[k])]

RECURSIVE LStrip(_)
LStrip(s) == IF s # <<>> /\ Head(s) \in Whitespace THEN LStrip(Tail(s)) ELSE s

RECURSIVE RStrip(_)
RStrip(s) ==
    IF s # <<>> /\ s[Len(s)] \in Whitespace
    THEN RStrip(SubSeq(s, 1, Len(s) - 1))
    ELSE s

Strip(s) == RStrip(LStrip(s))

Contains(s, sub) ==
    \E k \in 0..(Len(s) - Len(sub)) : SubSeq(s, k + 1, k + Len(sub)) = sub

RECURSIVE Repeat(_, _)
Repeat(c, n) == IF n <= 0 THEN <<>> ELSE <<c>> \o Repeat(c, n - 1)

-----------------------------------------------------------------------------
(* utils/output_validator.py                                               *)

MinOutputLength == 20

StrError == <<"e", "r", "r", "o", "r">>
StrFailed == <<"f", "a", "i", "l", "e", "d">>

is_valid_output_no_lower(o) ==
    IF o = <<>> \/ Len(Strip(o)) < MinOutputLength
    THEN FALSE
    ELSE IF Contains(o, StrError) \/ Contains(o, StrFailed)
         THEN FALSE
         ELSE TRUE

\* a validator that wants more than twenty characters
is_valid_output_longer(o) ==
    IF o = <<>> \/ Len(Strip(o)) <= MinOutputLength
    THEN FALSE
    ELSE IF Contains(Lower(o), StrError) \/ Contains(Lower(o), StrFailed)
         THEN FALSE
         ELSE TRUE

is_valid_output(o) ==
    IF o = <<>> \/ Len(Strip(o)) < MinOutputLength
    THEN FALSE
    ELSE IF Contains(Lower(o), StrError) \/ Contains(Lower(o), StrFailed)
         THEN FALSE
         ELSE TRUE

-----------------------------------------------------------------------------
(* utils/dummy_generator.py                                                *)

StrNoOutput ==
    <<"N", "o", " ", "o", "u", "t", "p", "u", "t", " ", "a", "v", "a", "i", "l",
      "a", "b", "l", "e", ".">>

fallback_messages ==
    [SummarizerAgent |->
        <<"S", "u", "m", "m", "a", "r", "y", " ", "u", "n", "a", "v", "a", "i",
          "l", "a", "b", "l", "e", ".", " ", "P", "l", "e", "a", "s", "e", " ",
          "r", "e", "v", "i", "e", "w", " ", "t", "h", "e", " ", "o", "r", "i",
          "g", "i", "n", "a", "l", " ", "t", "e", "x", "t", ".">>,
     CodeReviewerAgent |->
        <<"N", "o", " ", "c", "r", "i", "t", "i", "c", "a", "l", " ", "i", "s",
          "s", "u", "e", "s", " ", "d", "e", "t", "e", "c", "t", "e", "d", ".",
          " ", "C", "o", "n", "s", "i", "d", "e", "r", " ", "e", "d", "g", "e",
          " ", "c", "a", "s", "e", "s", ".">>,
     PersonaAgent |->
        <<"C", "o", "u", "l", "d", " ", "n", "o", "t", " ", "a", "d", "j", "u",
          "s", "t", " ", "t", "o", "n", "e", ".", " ", "O", "r", "i", "g", "i",
          "n", "a", "l", " ", "t", "e", "x", "t", " ", "r", "e", "t", "a", "i",
          "n", "e", "d", ".">>,
     FollowUpAgent |->
        <<"U", "n", "a", "b", "l", "e", " ", "t", "o", " ", "g", "e", "n", "e",
          "r", "a", "t", "e", " ", "n", "e", "x", "t", " ", "s", "t", "e", "p",
          "s", ".", " ", "P", "l", "e", "a", "s", "e", " ", "t", "r", "y", " ",
          "a", "g", "a", "i", "n", ".">>,
     ClarityAgent |->
        <<"C", "l", "a", "r", "i", "t", "y", " ", "s", "c", "o", "r", "e", " ",
          "u", "n", "a", "v", "a", "i", "l", "a", "b", "l", "e", ".", " ", "T",
          "e", "x", "t", " ", "m", "a", "y", " ", "n", "e", "e", "d", " ", "m",
          "a", "n", "u", "a", "l", " ", "r", "e", "v", "i", "e", "w", ".">>]

\* dict.get(key, default)
Get(map, key, default) == IF key \in DOMAIN map THEN map[key] ELSE default

generate_dummy_output_echo(agent_name, text) ==
    IF agent_name = "PersonaAgent" THEN text
    ELSE Get(fallback_messages, agent_name, StrNoOutput)

generate_dummy_output(agent_name, text) ==
    Get(fallback_messages, agent_name, StrNoOutput)

-----------------------------------------------------------------------------
(* agents/*.py: the four agent classes of the repository                   *)

AgentClasses ==
    {"SummarizerAgent", "CodeReviewerAgent", "PersonaAgent", "FollowUpAgent"}

\* the default of each constructor's model_name parameter
DefaultModelName(cls) ==
    CASE cls = "SummarizerAgent"   -> "t5-small"
      [] cls = "CodeReviewerAgent" -> "Salesforce/codet5-small"
      [] cls = "PersonaAgent"      -> "flan-t5-base"
      [] cls = "FollowUpAgent"     -> "flan-t5-base"

\* the task name each constructor hands to pipeline()
PipelineTask(cls) ==
    IF cls = "SummarizerAgent" THEN "summarization" ELSE "text2text-generation"

\* the instruction each run() puts before the input text
PromptFrame(cls) ==
    CASE cls = "SummarizerAgent"   -> ""
      [] cls = "CodeReviewerAgent" -> "Review this code and suggest improvements:\n"
      [] cls = "PersonaAgent"      -> "Rewrite this text in a friendly and engaging tone:\n"
      [] cls = "FollowUpAgent"     ->
            "What are the next steps or follow-up actions based on this?\n"

\* pipeline(task, model=name): the backend the loaded pipeline runs. With
\* model=None the library loads the default model of the task.
LoadedBackend(cls, name) ==
    IF name = None THEN "default:" \o PipelineTask(cls) ELSE name

\* __init__: model_name is stored, the pipeline is loaded from it once; a load
\* that raises leaves model = None.
AgentConstruct(cls, name, load_ok) ==
    [model_name |-> name,
     model      |-> IF load_ok THEN LoadedBackend(cls, name) ELSE None]

\* a set_model that leaves the agent's selection as it was
set_model_keep(agent, name) ==
    [model_name |-> agent.model_name, model |-> agent.model]

\* BaseAgent.set_model: assigns model_name and nothing else
set_model(agent, name) ==
    [model_name |-> name, model |-> agent.model]

(* What one call of the loaded pipeline does: it returns a generated text   *)
(* or it raises.                                                            *)
GeneratedTexts ==
    { <<>>,
      <<"S", "u", "m", "m", "a", "r", "y", " ", "t", "o", "o", " ", "s", "h",
        "o", "r", "t", ".", ".">>,
      <<"A", " ", "t", "w", "e", "n", "t", "y", " ", "c", "h", "a", "r", " ",
        "o", "u", "t", "p", "u", "t">>,
      <<"E", "r", "r", "o", "r", ":", " ", "g", "e", "n", "e", "r", "a", "t",
        "i", "o", "n", " ", "d", "i", "d", " ", "n", "o", "t", " ", "f", "i",
        "n", "i", "s", "h">>,
      <<"T", "h", "i", "s", " ", "i", "s", " ", "a", " ", "v", "a", "l", "i",
        "d", " ", "s", "u", "m", "m", "a", "r", "y", ".">> }

PipelineOutcomes ==
    {[raises |-> TRUE, text |-> <<>>]}
    \cup {[raises |-> FALSE, text |-> t] : t \in GeneratedTexts}

StrException ==
    <<"E", "x", "c", "e", "p", "t", "i", "o", "n">>

\* run() without the try/except around the pipeline call
AgentRun_no_except(cls, agent, text, outcome) ==
    IF agent.model = None
    THEN [exc |-> None, ret |-> <<>>, invoked |-> None, pipeline |-> "not_loaded",
          prompt |-> <<PromptFrame(cls), text>>, selected |-> agent.model_name]
    ELSE IF outcome.raises
         THEN [exc |-> "Exception", ret |-> <<>>, invoked |-> agent.model,
               pipeline |-> "raised",
               prompt |-> <<PromptFrame(cls), text>>, selected |-> agent.model_name]
         ELSE [exc |-> None, ret |-> outcome.text, invoked |-> agent.model,
               pipeline |-> "returned",
               prompt |-> <<PromptFrame(cls), text>>, selected |-> agent.model_name]

\* run() whose except branch returns the text of the exception
AgentRun_error_text(cls, agent, text, outcome) ==
    IF agent.model = None
    THEN [exc |-> None, ret |-> <<>>, invoked |-> None, pipeline |-> "not_loaded",
          prompt |-> <<PromptFrame(cls), text>>, selected |-> agent.model_name]
    ELSE IF outcome.raises
         THEN [exc |-> None, ret |-> StrException, invoked |-> agent.model,
               pipeline |-> "raised",
               prompt |-> <<PromptFrame(cls), text>>, selected |-> agent.model_name]
         ELSE [exc |-> None, ret |-> outcome.text, invoked |-> agent.model,
               pipeline |-> "returned",
               prompt |-> <<PromptFrame(cls), text>>, selected |-> agent.model_name]

(* run(input_text) of the four classes: "" when no pipeline is loaded, else *)
(* the pipeline is called on the framed prompt; whatever it raises is       *)
(* caught and "" returned. The record is the call as the log keeps it:      *)
(* exc is the exception leaving run (None: it returned), ret the returned   *)
(* text, invoked the backend the pipeline call ran on (None: no call),      *)
(* selected the model_name at the time of the call.                         *)
AgentRun(cls, agent, text, outcome) ==
    IF agent.model = None
    THEN [exc |-> None, ret |-> <<>>, invoked |-> None, pipeline |-> "not_loaded",
          prompt |-> <<PromptFrame(cls), text>>, selected |-> agent.model_name]
    ELSE IF outcome.raises
         THEN [exc |-> None, ret |-> <<>>, invoked |-> agent.model,
               pipeline |-> "raised",
               prompt |-> <<PromptFrame(cls), text>>, selected |-> agent.model_name]
         ELSE [exc |-> None, ret |-> outcome.text, invoked |-> agent.model,
               pipeline |-> "returned",
               prompt |-> <<PromptFrame(cls), text>>, selected |-> agent.model_name]

-----------------------------------------------------------------------------
(* backend/utils.py/fallback.py: the fallback table                        *)

fallback_map ==
    [SummarizerAgent   |-> <<"t5-small", "flan-t5-base", "google/pegasus-xsum">>,
     CodeReviewerAgent |-> <<"Salesforce/codet5-small", "t5-base">>,
     PersonaAgent      |-> <<"flan-t5-base", "t5-v1_1-base">>,
     FollowUpAgent     |-> <<"flan-t5-base", "t5-small">>,
     ClarityAgent      |-> <<"flan-t5-base", "t5-small">>]

\* a configuration file that has no entry for PersonaAgent and an empty one
\* for FollowUpAgent
partial_fallback_map ==
    [SummarizerAgent   |-> <<"t5-small", "flan-t5-base", "google/pegasus-xsum">>,
     CodeReviewerAgent |-> <<"Salesforce/codet5-small", "t5-base">>,
     FollowUpAgent     |-> <<>>]

\* what json.load may find at FALLBACK_CONFIG_PATH
FallbackConfigs == {fallback_map, partial_fallback_map}

BackendIds ==
    UNION {{m[k][j] : j \in 1..Len(m[k])} : <<m, k>> \in
              {<<m2, k2>> \in FallbackConfigs \X DOMAIN fallback_map : k2 \in DOMAIN m2}}
    \cup {DefaultModelName(c) : c \in AgentClasses}
    \cup {"x"}

InputTexts ==
    { <<>>,
      <<"S", "o", "m", "e", " ", "i", "n", "p", "u", "t">> }

\* the agent object as the two fields of BaseAgent
Agent == [model_name |-> model_name, model |-> model]

-----------------------------------------------------------------------------
(* models/fallback_manager.py: run_with_fallback, one action per statement *)

get_fallback_models_default(map, agent_name) ==
    Get(map, agent_name, <<"t5-small">>)

\* fallback_map.get(agent.__class__.__name__, [])
get_fallback_models(map, agent_name) == Get(map, agent_name, <<>>)

\* the state after the agent was constructed with one of ctor_names as its
\* model_name argument, before any call
AgentInit(ctor_names) ==
    /\ agent_class \in AgentClasses
    /\ input_text \in InputTexts
    /\ \E name \in ctor_names, load_ok \in BOOLEAN :
          /\ model_name = AgentConstruct(agent_class, name, load_ok).model_name
          /\ model = AgentConstruct(agent_class, name, load_ok).model
    /\ pc = "idle"
    /\ candidates = <<>>
    /\ idx = 0
    /\ output = <<>>
    /\ log = <<>>
    /\ result = <<>>
    /\ raised = None
    /\ entry_model_name = None

\* cli/run_chain.py line 32: agent_class(), the constructor's default model
OrchInit ==
    /\ fallback_config \in FallbackConfigs
    /\ AgentInit({DefaultModelName(agent_class)})

\* the caller selects a backend before the call (cli/run_chain.py)
caller_set_model ==
    /\ pc = "idle"
    /\ \E name \in BackendIds :
          /\ name # model_name
          /\ model_name' = set_model(Agent, name).model_name
          /\ model' = set_model(Agent, name).model
    /\ UNCHANGED <<agent_class, input_text, fallback_config, pc, candidates, idx,
                   output, log, result, raised, entry_model_name>>
    /\ UNCHANGED orchOthers

\* lines 9-12: the table is loaded and the loop entered
rwf_open ==
    /\ pc = "idle"
    /\ candidates' = get_fallback_models(fallback_config, agent_class)
    /\ idx' = 1
    /\ entry_model_name' = model_name
    /\ pc' = IF candidates' # <<>> THEN "set_model" ELSE "dummy"
    /\ UNCHANGED <<agent_class, model_name, model, input_text, fallback_config,
                   output, log, result, raised>>
    /\ UNCHANGED orchOthers

\* line 13
rwf_set_model ==
    /\ pc = "set_model"
    /\ model_name' = set_model(Agent, candidates[idx]).model_name
    /\ model' = set_model(Agent, candidates[idx]).model
    /\ pc' = "run"
    /\ UNCHANGED <<agent_class, input_text, fallback_config, candidates, idx,
                   output, log, result, raised, entry_model_name>>
    /\ UNCHANGED orchOthers

\* line 14: an exception leaving run is not caught here and reaches the caller
rwf_run ==
    /\ pc = "run"
    /\ \E outcome \in PipelineOutcomes :
          LET r == AgentRun(agent_class, Agent, input_text, outcome) IN
          /\ log' = Append(log, r)
          /\ IF r.exc # None
             THEN /\ raised' = r.exc
                  /\ pc' = "done"
                  /\ UNCHANGED output
             ELSE /\ output' = r.ret
                  /\ pc' = "validate"
                  /\ UNCHANGED raised
    /\ UNCHANGED <<agent_class, model_name, model, input_text, fallback_config,
                   candidates, idx, result, entry_model_name>>
    /\ UNCHANGED orchOthers

\* lines 15-16 with the return forgotten: the loop goes on to the next candidate
rwf_validate_no_return ==
    /\ pc = "validate"
    /\ result' = IF is_valid_output(output) THEN output ELSE result
    /\ IF idx < Len(candidates)
       THEN /\ idx' = idx + 1
            /\ pc' = "set_model"
       ELSE /\ pc' = IF result' # <<>> THEN "done" ELSE "dummy"
            /\ UNCHANGED idx
    /\ UNCHANGED <<agent_class, model_name, model, input_text, fallback_config,
                   candidates, output, log, raised, entry_model_name>>
    /\ UNCHANGED orchOthers

\* lines 15-16 testing only that run returned something (output is not None)
rwf_validate_not_none ==
    /\ pc = "validate"
    /\ result' = output
    /\ pc' = "done"
    /\ UNCHANGED <<agent_class, model_name, model, input_text, fallback_config,
                   candidates, idx, output, log, raised, entry_model_name>>
    /\ UNCHANGED orchOthers

\* lines 15-16 and 12 trying the last candidate a second time before giving up
rwf_validate_retry_last ==
    /\ pc = "validate"
    /\ IF is_valid_output(output)
       THEN /\ result' = output
            /\ pc' = "done"
            /\ UNCHANGED idx
       ELSE IF idx < Len(candidates)
            THEN /\ idx' = idx + 1
                 /\ pc' = "set_model"
                 /\ UNCHANGED result
            ELSE IF Len(log) <= Len(candidates)
                 THEN /\ pc' = "set_model"
                      /\ UNCHANGED <<idx, result>>
                 ELSE /\ pc' = "dummy"
                      /\ UNCHANGED <<idx, result>>
    /\ UNCHANGED <<agent_class, model_name, model, input_text, fallback_config,
                   candidates, output, log, raised, entry_model_name>>
    /\ UNCHANGED orchOthers

\* lines 15-16, and line 12 for the next round of the loop
rwf_validate ==
    /\ pc = "validate"
    /\ IF is_valid_output(output)
       THEN /\ result' = output
            /\ pc' = "done"
            /\ UNCHANGED idx
       ELSE IF idx < Len(candidates)
            THEN /\ idx' = idx + 1
                 /\ pc' = "set_model"
                 /\ UNCHANGED result
            ELSE /\ pc' = "dummy"
                 /\ UNCHANGED <<idx, result>>
    /\ UNCHANGED <<agent_class, model_name, model, input_text, fallback_config,
                   candidates, output, log, raised, entry_model_name>>
    /\ UNCHANGED orchOthers

\* line 18 called with the model name in place of the class name
rwf_dummy_by_model_name ==
    /\ pc = "dummy"
    /\ result' = generate_dummy_output(model_name, input_text)
    /\ pc' = "done"
    /\ UNCHANGED <<agent_class, model_name, model, input_text, fallback_config,
                   candidates, idx, output, log, raised, entry_model_name>>
    /\ UNCHANGED orchOthers

\* line 18
rwf_dummy ==
    /\ pc = "dummy"
    /\ result' = generate_dummy_output(agent_class, input_text)
    /\ pc' = "done"
    /\ UNCHANGED <<agent_class, model_name, model, input_text, fallback_config,
                   candidates, idx, output, log, raised, entry_model_name>>
    /\ UNCHANGED orchOthers

OrchParked ==
    /\ agent_class = "SummarizerAgent"
    /\ input_text = <<>>
    /\ fallback_config = fallback_map
    /\ model_name = None
    /\ model = None
    /\ pc = "idle"
    /\ candidates = <<>>
    /\ idx = 0
    /\ output = <<>>
    /\ log = <<>>
    /\ result = <<>>
    /\ raised = None
    /\ entry_model_name = None

ValidatorParked ==
    /\ v_case = <<>>
    /\ v_output = <<>>
    /\ v_checked = FALSE
    /\ v_verdict = FALSE

DummyParked == dummy_calls = {}

ConcParked ==
    /\ c_agent_of = <<>>
    /\ c_agents = <<>>
    /\ c_pc = <<>>
    /\ c_cands = <<>>
    /\ c_idx = <<>>
    /\ c_out = <<>>
    /\ c_log = <<>>
    /\ c_seen = <<>>
    /\ c_result = <<>>
    /\ c_last_set = <<>>

PlannerParked ==
    /\ pl_model = None
    /\ pl_count = 0
    /\ pl_goal = <<>>
    /\ pl_outcome = <<>>
    /\ pl_ret = <<>>
    /\ pl_exc = None
    /\ pl_invoked = <<>>

RouterParked ==
    /\ rt_config = <<>>
    /\ rt_calls = {}

MMParked ==
    /\ mm_model = None
    /\ mm_params = <<>>
    /\ mm_files = <<>>
    /\ mm_ret = None
    /\ mm_exc = None
    /\ mm_held = <<>>
    /\ mm_last = <<>>
    /\ mm_snap = <<>>
    /\ mm_steps = 0

\* the planner, the router and the model manager, none of them in use
LaterParked == PlannerParked /\ RouterParked /\ MMParked

PMParked ==
    /\ pm_rows = {}
    /\ pm_next_id = 0
    /\ pm_clock = 0
    /\ pm_ret = None
    /\ pm_exc = None
    /\ pm_last = <<>>

TMParked ==
    /\ tm_files = <<>>
    /\ tm_cache = <<>>
    /\ tm_ret = None
    /\ tm_exc = None
    /\ tm_last = <<>>
    /\ tm_was_cached = {}
    /\ tm_steps = 0

CLIParked ==
    /\ cli_args = <<>>
    /\ cli_config = <<>>
    /\ cli_set = None
    /\ cli_report = <<>>

SvcParked ==
    /\ svc_request = <<>>
    /\ svc_payload = <<>>
    /\ svc_exc = None
    /\ svc_constructed = <<>>
    /\ svc_runs = <<>>
    /\ svc_count = 0

IMParked ==
    /\ im_pc = None
    /\ im_event = <<>>
    /\ im_last = <<>>
    /\ im_eof = FALSE
    /\ im_calls = 0
    /\ im_errors = 0

\* the storage managers, the services and the console, none of them in use
ExtraParked == PMParked /\ TMParked /\ CLIParked /\ SvcParked /\ IMParked

\* the parts added to the model after the pipeline itself, none of them in use
RestParked == ConcParked /\ LaterParked /\ ExtraParked

Init == OrchInit /\ ValidatorParked /\ DummyParked /\ RestParked

Next ==
    \/ caller_set_model
    \/ rwf_open
    \/ rwf_set_model
    \/ rwf_run
    \/ rwf_validate
    \/ rwf_dummy

Spec == Init /\ [][Next]_vars

-----------------------------------------------------------------------------
(* The agent alone: a caller that selects backends and calls run directly  *)

MaxRuns == 2

\* the backends a direct caller selects: the one the specification's example
\* names and the default of the agent's class
SelectableIds == {"x", DefaultModelName(agent_class)}

agent_set_model ==
    /\ \E name \in SelectableIds :
          /\ name # model_name
          /\ model_name' = set_model(Agent, name).model_name
          /\ model' = set_model(Agent, name).model
    /\ UNCHANGED <<agent_class, input_text, fallback_config, pc, candidates, idx,
                   output, log, result, raised, entry_model_name>>
    /\ UNCHANGED orchOthers

agent_run ==
    /\ Len(log) < MaxRuns
    /\ \E outcome \in PipelineOutcomes :
          log' = Append(log, AgentRun(agent_class, Agent, input_text, outcome))
    /\ UNCHANGED <<agent_class, model_name, model, input_text, fallback_config, pc,
                   candidates, idx, output, result, raised, entry_model_name>>
    /\ UNCHANGED orchOthers

\* model_name is Optional: the agent may be constructed with None
InitAgent ==
    /\ fallback_config = fallback_map
    /\ AgentInit({DefaultModelName(agent_class), None})
    /\ ValidatorParked
    /\ DummyParked
    /\ RestParked

NextAgent ==
    \/ agent_set_model
    \/ agent_run

SpecAgent == InitAgent /\ [][NextAgent]_vars

-----------------------------------------------------------------------------
(* Properties of run_with_fallback (Spec) and of the agent (SpecAgent)     *)

Chars == {" ", "\t", "\n", "\r", ".", ":"} \cup {UpperCase[k] : k \in 1..Len(UpperCase)}
            \cup {LowerCase[k] : k \in 1..Len(LowerCase)}

IsText(x) == x \in Seq(Chars)

\* the call returned (no later step is left) without an exception
Returned == pc = "done" /\ raised = None

\* the table has no entry, or an empty one, for the agent's class
NoCandidates ==
    \/ agent_class \notin DOMAIN fallback_config
    \/ fallback_config[agent_class] = <<>>

\* C1: the j-th run of a call is made with the j-th candidate selected; no run
\* follows a run whose output passed the validator, so the call makes exactly
\* as many runs as the position of the first passing candidate (one when the
\* first passes); and it returns exactly the output of that run.
C1_FirstSuccessWins ==
    /\ \A j \in 1..Len(log) : log[j].selected = candidates[j]
    /\ \A j \in 1..(Len(log) - 1) : ~is_valid_output(log[j].ret)
    /\ (Returned /\ log # <<>> /\ is_valid_output(log[Len(log)].ret))
          => result = log[Len(log)].ret

\* C1 witness: the first candidate was rejected, the second accepted and returned
C1_Witness ==
    /\ Returned
    /\ Len(log) = 2
    /\ ~is_valid_output(log[1].ret)
    /\ is_valid_output(log[2].ret)
    /\ result = log[2].ret

\* C2: when the call has returned and no run's output passed the validator,
\* every candidate was run once and the result is the fixed message of the
\* agent's class.
C2_AllRejectedGivesDummy ==
    (Returned /\ \A j \in 1..Len(log) : ~is_valid_output(log[j].ret))
        => /\ Len(log) = Len(candidates)
           /\ result = fallback_messages[agent_class]

\* C2 witness: the three summarizer candidates all gave "", the summarizer's
\* message was returned
C2_Witness ==
    /\ Returned
    /\ agent_class = "SummarizerAgent"
    /\ Len(log) = 3
    /\ \A j \in 1..3 : log[j].ret = <<>>
    /\ result = fallback_messages["SummarizerAgent"]

\* C3: when the table has no entry or an empty entry for the agent's class,
\* no run is ever made, model_name stays what it was on entry, and the call
\* returns the fixed message of the class.
C3_NoCandidatesNoRun ==
    NoCandidates =>
        /\ log = <<>>
        /\ raised = None
        /\ pc # "idle" => model_name = entry_model_name
        /\ pc = "done" => result = fallback_messages[agent_class]

\* C3 witness: a call for a class absent from the table has returned
C3_Witness ==
    /\ Returned
    /\ agent_class \notin DOMAIN fallback_config
    /\ model_name # DefaultModelName(agent_class)
    /\ result = fallback_messages[agent_class]

\* C4: every pipeline call of a run is carried out by the backend selected at
\* the time of the run.
C4_RunUsesSelectedBackend ==
    \A j \in 1..Len(log) :
        log[j].invoked # None => log[j].invoked = log[j].selected

C6_EachBackendInvokedOnce ==
    /\ \A j \in 1..Len(log) : log[j].selected = candidates[j]
    /\ \A j, k \in 1..Len(log) :
          (j # k /\ log[j].invoked # None) => log[j].invoked # log[k].invoked

\* C7: a run made while no backend is selected fails with NoBackendSelected,
\* and a run made after a backend was selected does not fail.
C7_UnboundRunFails ==
    \A j \in 1..Len(log) :
        /\ log[j].selected = None => log[j].exc = "NoBackendSelected"
        /\ log[j].selected # None => log[j].exc = None

\* C8: run never lets an exception out and always returns a text: "" when no
\* pipeline is loaded or the pipeline call raised, the generated text otherwise.
C8_RunAbsorbsBackendFailure ==
    \A j \in 1..Len(log) :
        /\ log[j].exc = None
        /\ IsText(log[j].ret)
        /\ log[j].pipeline \in {"not_loaded", "raised"} => log[j].ret = <<>>

\* C8 witness: one run whose pipeline call raised and one whose pipeline was
\* never loaded cannot share an agent; the witness is a raised call whose run
\* returned ""
C8_Witness ==
    \E j \in 1..Len(log) :
        /\ log[j].pipeline = "raised"
        /\ log[j].exc = None
        /\ log[j].ret = <<>>

\* C11: the text run_with_fallback returns is never empty: it is the output of
\* the last run and passed the validator, or it is the fixed message of the
\* agent's class; and the fixed message of every agent name, known or not, is
\* not empty.
C11_ResultNeverEmpty ==
    /\ Returned =>
          /\ result # <<>>
          /\ \/ /\ log # <<>>
                /\ result = log[Len(log)].ret
                /\ is_valid_output(result)
             \/ /\ result = fallback_messages[agent_class]
                /\ \A j \in 1..Len(log) : ~is_valid_output(log[j].ret)
    /\ \A a \in DOMAIN fallback_messages \cup {"TranslatorAgent", ""}, t \in InputTexts :
          generate_dummy_output(a, t) # <<>>

\* C11 witness: every run gave "" (a raising call among them) and a non-empty
\* text was returned all the same
C11_Witness ==
    /\ Returned
    /\ log # <<>>
    /\ \A j \in 1..Len(log) : log[j].ret = <<>>
    /\ \E j \in 1..Len(log) : log[j].pipeline = "raised"
    /\ result # <<>>

-----------------------------------------------------------------------------
(* Termination of run_with_fallback. The pipeline call of run may also     *)
(* never return: the call is then blocked inside run for good, nothing in  *)
(* run_with_fallback bounds the wait.                                      *)

rwf_run_blocks ==
    /\ pc = "run"
    /\ model # None
    /\ pc' = "blocked"
    /\ UNCHANGED <<agent_class, model_name, model, input_text, fallback_config,
                   candidates, idx, output, log, result, raised, entry_model_name>>
    /\ UNCHANGED orchOthers

\* the statements of a call that was entered: sequential code goes on to its
\* next statement
RwfStep ==
    \/ rwf_set_model
    \/ rwf_run
    \/ rwf_run_blocks
    \/ rwf_validate
    \/ rwf_dummy

NextTerm ==
    \/ caller_set_model
    \/ rwf_open
    \/ rwf_set_model
    \/ rwf_run
    \/ rwf_run_blocks
    \/ rwf_validate
    \/ rwf_dummy

SpecTerm == Init /\ [][NextTerm]_vars /\ WF_vars(RwfStep)

\* C12: a call never makes more runs than its table entry has candidates; once
\* entered it ends up returned or blocked in a pipeline call; and a call
\* blocked in a pipeline call stays blocked, it never returns.
C12_TerminatesUnlessBlocked ==
    /\ [](Len(log) <= Len(candidates))
    /\ (pc # "idle") ~> (pc \in {"done", "blocked"})
    /\ [][pc = "blocked" => pc' = "blocked"]_vars

\* C12 witness: a call returned after running each of its three candidates once
C12_Witness ==
    /\ Returned
    /\ Len(candidates) = 3
    /\ Len(log) = 3

-----------------------------------------------------------------------------
(* is_valid_output on its own. The input is built from a description       *)
(* (v_case): lead and trail whitespace characters around a core of n       *)
(* characters that starts and ends with a non-blank character and holds    *)
(* one marker word at offset pos.                                          *)

MaxCore == 21
MaxPad == 1

RejectedWords ==
    { <<"e", "r", "r", "o", "r">>,
      <<"E", "r", "r", "o", "r">>,
      <<"E", "R", "R", "O", "R">>,
      <<"f", "a", "i", "l", "e", "d">>,
      <<"F", "a", "I", "l", "E", "d">>,
      <<"F", "A", "I", "L", "E", "D">> }

HarmlessWords ==
    { <<>>,
      <<"e", "r", "r", "o">>,
      <<"F", "a", "i", "l">> }

Core(n, fill, marker, pos) ==
    [k \in 1..n |->
        IF pos < k /\ k <= pos + Len(marker) THEN marker[k - pos]
        ELSE IF k = 1 THEN "a"
        ELSE IF k = n THEN "z"
        ELSE fill]

BuildText(c) ==
    Repeat(c.pad, c.lead) \o Core(c.n, c.fill, c.marker, c.pos) \o Repeat(c.pad, c.trail)

ValidatorCases ==
    { c \in [lead : 0..MaxPad, trail : 0..MaxPad, pad : {" ", "\n"},
             n : 0..MaxCore, fill : {"x", " "},
             marker : RejectedWords \cup HarmlessWords, pos : 0..MaxCore] :
        c.pos + Len(c.marker) <= c.n }

InitValidator ==
    /\ v_case \in ValidatorCases
    /\ v_output = BuildText(v_case)
    /\ v_checked = FALSE
    /\ v_verdict = FALSE
    /\ OrchParked
    /\ DummyParked
    /\ RestParked

validate ==
    /\ ~v_checked
    /\ v_verdict' = is_valid_output(v_output)
    /\ v_checked' = TRUE
    /\ UNCHANGED <<v_case, v_output>>
    /\ UNCHANGED validatorOthers

NextValidator == validate

SpecValidator == InitValidator /\ [][NextValidator]_vars

\* C9: is_valid_output accepts a text exactly when what is left of it after
\* trimming has at least 20 characters and it holds neither "error" nor
\* "failed" in any letter case (so 20 is accepted, 19 and "" are rejected).
C9_ValidatorVerdict ==
    v_checked =>
        (v_verdict <=> (v_case.n >= 20 /\ v_case.marker \notin RejectedWords))

\* C9 witness: a text of 20 characters between blanks, with no marker, accepted
C9_Witness ==
    /\ v_checked
    /\ v_case.n = 20
    /\ v_case.lead > 0
    /\ v_case.trail > 0
    /\ v_case.marker = <<>>
    /\ v_verdict

-----------------------------------------------------------------------------
(* generate_dummy_output on its own: calls with any agent name and text    *)

MaxDummyCalls == 2

DummyAgentNames ==
    DOMAIN fallback_messages \cup {"TranslatorAgent", "summarizeragent", ""}

DummyTexts ==
    InputTexts \cup {<<"s", "u", "m", "m", "a", "r", "y">>}

dummy_call ==
    /\ Cardinality(dummy_calls) < MaxDummyCalls
    /\ \E a \in DummyAgentNames, t \in DummyTexts :
          dummy_calls' = dummy_calls \cup
              {[agent_name |-> a, text |-> t, out |-> generate_dummy_output(a, t)]}
    /\ UNCHANGED dummyOthers

InitDummy ==
    /\ dummy_calls = {}
    /\ ValidatorParked
    /\ OrchParked
    /\ RestParked

NextDummy == dummy_call

SpecDummy == InitDummy /\ [][NextDummy]_vars

StrSummary == <<"s", "u", "m", "m", "a", "r", "y">>

\* C10: the text generate_dummy_output returns depends on the agent name
\* alone: two calls with the same name return the same text whatever the
\* input; a name other than the five known ones gives "No output available.",
\* a known one gives a text of its own, the summarizer's mentioning "summary";
\* every call returns a text.
C10_DummyDependsOnAgentOnly ==
    /\ \A c, d \in dummy_calls : c.agent_name = d.agent_name => c.out = d.out
    /\ \A c \in dummy_calls :
          /\ IsText(c.out)
          /\ c.out # <<>>
          /\ c.agent_name \notin {"SummarizerAgent", "CodeReviewerAgent", "PersonaAgent",
                                  "FollowUpAgent", "ClarityAgent"}
                <=> c.out = StrNoOutput
          /\ c.agent_name = "SummarizerAgent" => Contains(Lower(c.out), StrSummary)

\* C10 witness: two calls for the same known agent with different input texts
C10_Witness ==
    \E c, d \in dummy_calls :
        /\ c.agent_name = "PersonaAgent"
        /\ d.agent_name = "PersonaAgent"
        /\ c.text # d.text
        /\ c.out = d.out

\* C29: every text generate_dummy_output returns, the generic one for an
\* unknown agent name included, is accepted by is_valid_output.
C29_PlaceholdersPassValidator ==
    \A c \in dummy_calls : is_valid_output(c.out)

\* C29 witness: the generic text, exactly as long as the validator demands, and
\* the text of a known agent have both been returned
C29_Witness ==
    /\ \E c \in dummy_calls :
          /\ c.agent_name \notin DOMAIN fallback_messages
          /\ c.out = StrNoOutput
          /\ Len(Strip(c.out)) = MinOutputLength
    /\ \E c \in dummy_calls : c.agent_name = "FollowUpAgent"

-----------------------------------------------------------------------------
(* Several calls of run_with_fallback in flight at once. Each call has its *)
(* own locals; what it shares with the others is the table, which nobody   *)
(* writes, and the agent object when the callers hand the same one in.     *)

NumCalls == 2

Calls == 1..NumCalls

ConcClasses == {"SummarizerAgent", "CodeReviewerAgent"}

ConcInputText == <<"S", "o", "m", "e", " ", "i", "n", "p", "u", "t">>

\* the pipeline outcomes the concurrent calls draw from: the call raises, or
\* it returns a text the validator accepts
ConcOutcomes ==
    { [raises |-> TRUE, text |-> <<>>],
      [raises |-> FALSE,
       text |-> <<"T", "h", "i", "s", " ", "i", "s", " ", "a", " ", "v", "a", "l",
                  "i", "d", " ", "s", "u", "m", "m", "a", "r", "y", ".">>] }

\* every call is handed the same agent object
OneAgentForAll == [p \in Calls |-> 1]

\* every call constructs its agent itself (cli/run_chain.py line 32)
OwnAgents == [p \in Calls |-> p]

\* calls 1 and 2 are handed the same agent object, any further call its own
SharedAgent == [p \in Calls |-> IF p <= 2 THEN 1 ELSE p]

NoSetter == [by |-> 0, name |-> None]

ConcInit(agent_of) ==
    /\ c_agent_of = agent_of
    /\ c_agents \in [Calls -> [cls : ConcClasses, model_name : {None}, model : {None}]
                              \cup {[cls |-> c,
                                     model_name |-> DefaultModelName(c),
                                     model |-> AgentConstruct(c, DefaultModelName(c), TRUE).model]
                                       : c \in ConcClasses}]
    /\ \A a \in Calls :
          IF \E p \in Calls : agent_of[p] = a
          THEN c_agents[a].model_name # None
          ELSE c_agents[a] = [cls |-> "SummarizerAgent", model_name |-> None, model |-> None]
    /\ c_pc = [p \in Calls |-> "idle"]
    /\ c_cands = [p \in Calls |-> <<>>]
    /\ c_idx = [p \in Calls |-> 0]
    /\ c_out = [p \in Calls |-> <<>>]
    /\ c_log = [p \in Calls |-> <<>>]
    /\ c_seen = [p \in Calls |-> <<>>]
    /\ c_result = [p \in Calls |-> <<>>]
    /\ c_last_set = [a \in Calls |-> NoSetter]

\* the agent object of call p, as the two fields of BaseAgent, and its class
CAgent(p) ==
    [model_name |-> c_agents[c_agent_of[p]].model_name,
     model      |-> c_agents[c_agent_of[p]].model]
CClass(p) == c_agents[c_agent_of[p]].cls

\* lines 9-12
c_open(p) ==
    /\ c_pc[p] = "idle"
    /\ c_cands' = [c_cands EXCEPT ![p] = get_fallback_models(fallback_map, CClass(p))]
    /\ c_idx' = [c_idx EXCEPT ![p] = 1]
    /\ c_pc' = [c_pc EXCEPT ![p] = IF c_cands'[p] # <<>> THEN "set_model" ELSE "dummy"]
    /\ UNCHANGED <<c_agent_of, c_agents, c_out, c_log, c_seen, c_result, c_last_set>>
    /\ UNCHANGED concOthers

\* line 13
c_set_model(p) ==
    /\ c_pc[p] = "set_model"
    /\ c_agents' = [c_agents EXCEPT ![c_agent_of[p]] =
                      [cls        |-> @.cls,
                       model_name |-> set_model(CAgent(p), c_cands[p][c_idx[p]]).model_name,
                       model      |-> set_model(CAgent(p), c_cands[p][c_idx[p]]).model]]
    /\ c_last_set' = [c_last_set EXCEPT ![c_agent_of[p]] =
                        [by |-> p, name |-> c_cands[p][c_idx[p]]]]
    /\ c_pc' = [c_pc EXCEPT ![p] = "run"]
    /\ UNCHANGED <<c_agent_of, c_cands, c_idx, c_out, c_log, c_seen, c_result>>
    /\ UNCHANGED concOthers

\* line 14
c_run(p) ==
    /\ c_pc[p] = "run"
    /\ \E outcome \in ConcOutcomes :
          LET r == AgentRun(CClass(p), CAgent(p), ConcInputText, outcome) IN
          /\ c_log' = [c_log EXCEPT ![p] = Append(@, r)]
          /\ c_out' = [c_out EXCEPT ![p] = r.ret]
    /\ c_seen' = [c_seen EXCEPT ![p] = Append(@, c_last_set[c_agent_of[p]])]
    /\ c_pc' = [c_pc EXCEPT ![p] = "validate"]
    /\ UNCHANGED <<c_agent_of, c_agents, c_cands, c_idx, c_result, c_last_set>>
    /\ UNCHANGED concOthers

\* lines 15-16, and line 12 for the next round
c_validate(p) ==
    /\ c_pc[p] = "validate"
    /\ IF is_valid_output(c_out[p])
       THEN /\ c_result' = [c_result EXCEPT ![p] = c_out[p]]
            /\ c_pc' = [c_pc EXCEPT ![p] = "done"]
            /\ UNCHANGED c_idx
       ELSE IF c_idx[p] < Len(c_cands[p])
            THEN /\ c_idx' = [c_idx EXCEPT ![p] = @ + 1]
                 /\ c_pc' = [c_pc EXCEPT ![p] = "set_model"]
                 /\ UNCHANGED c_result
            ELSE /\ c_pc' = [c_pc EXCEPT ![p] = "dummy"]
                 /\ UNCHANGED <<c_idx, c_result>>
    /\ UNCHANGED <<c_agent_of, c_agents, c_cands, c_out, c_log, c_seen, c_last_set>>
    /\ UNCHANGED concOthers

\* line 18
c_dummy(p) ==
    /\ c_pc[p] = "dummy"
    /\ c_result' = [c_result EXCEPT ![p] = generate_dummy_output(CClass(p), ConcInputText)]
    /\ c_pc' = [c_pc EXCEPT ![p] = "done"]
    /\ UNCHANGED <<c_agent_of, c_agents, c_cands, c_idx, c_out, c_log, c_seen, c_last_set>>
    /\ UNCHANGED concOthers

NextConc ==
    \/ \E p \in Calls : c_open(p)
    \/ \E p \in Calls : c_set_model(p)
    \/ \E p \in Calls : c_run(p)
    \/ \E p \in Calls : c_validate(p)
    \/ \E p \in Calls : c_dummy(p)

InitOwn ==
    ConcInit(OwnAgents) /\ OrchParked /\ ValidatorParked /\ DummyParked /\ LaterParked
    /\ ExtraParked

InitShared ==
    ConcInit(SharedAgent) /\ OrchParked /\ ValidatorParked /\ DummyParked /\ LaterParked
    /\ ExtraParked

\* each call with an agent of its own
SpecOwn == InitOwn /\ [][NextConc]_vars

\* two calls on one agent object, nothing serializing them
SpecShared == InitShared /\ [][NextConc]_vars

(* run_with_fallback executed from start to end with nothing else running: *)
(* the loop of lines 12-16 on candidates i.. with the given pipeline       *)
(* outcomes, then line 18.                                                 *)
RECURSIVE RwfAlone(_, _, _, _, _, _, _)
RwfAlone(cls, agent, text, cands, outcomes, i, runs) ==
    IF i > Len(cands)
    THEN [result |-> generate_dummy_output(cls, text), log |-> runs, agent |-> agent]
    ELSE LET selected == set_model(agent, cands[i])
             r == AgentRun(cls, selected, text, outcomes[i])
         IN  IF is_valid_output(r.ret)
             THEN [result |-> r.ret, log |-> Append(runs, r), agent |-> selected]
             ELSE RwfAlone(cls, selected, text, cands, outcomes, i + 1, Append(runs, r))

\* the pipeline outcome a logged run met
OutcomeOf(r) == [raises |-> r.pipeline = "raised", text |-> r.ret]

\* what call p would do alone, meeting the pipeline outcomes it met, padded
\* with outcomes for the runs it has not made yet
AloneOf(p, agent0) ==
    LET cands == get_fallback_models(fallback_map, CClass(p))
        met == [j \in 1..Len(cands) |->
                   IF j <= Len(c_log[p]) THEN OutcomeOf(c_log[p][j])
                   ELSE [raises |-> TRUE, text |-> <<>>]]
    IN  RwfAlone(CClass(p), agent0, ConcInputText, cands, met, 1, <<>>)

IsPrefix(a, b) == Len(a) <= Len(b) /\ SubSeq(b, 1, Len(a)) = a

\* C13: with an agent of its own, every call makes, in every interleaving, the
\* runs it would make alone on the same pipeline outcomes (same selections,
\* same backend, same order), returns what it would return alone, and leaves
\* its agent as it would alone.
C13_OwnAgentSameAsAlone ==
    \A p \in Calls :
        LET agent0 == [model_name |-> DefaultModelName(CClass(p)), model |-> CAgent(p).model]
            alone == AloneOf(p, agent0)
        IN  /\ IsPrefix(c_log[p], alone.log)
            /\ c_pc[p] = "done" =>
                  /\ c_log[p] = alone.log
                  /\ c_result[p] = alone.result
                  /\ CAgent(p) = alone.agent

\* C13 witness: two calls have returned, one after a rejected first run, and a
\* run of the one was made between two runs of the other
C13_Witness ==
    /\ \A p \in Calls : c_pc[p] = "done"
    /\ Len(c_log[1]) = 2
    /\ Len(c_log[2]) >= 1
    /\ c_result[1] # c_result[2]

\* the candidate call p was at when it made its j-th run
OwnCandidate(p, j) == c_cands[p][j]

\* the j-th run of call p was made under a selection another call had set
Leaked(p, j) ==
    /\ c_seen[p][j].by # p
    /\ c_log[p][j].selected # OwnCandidate(p, j)

\* C14: on a shared agent every run of a call executes under the selection
\* made by the most recent set_model on that agent, whichever call made it:
\* the call's own candidate when it was the last to select, the other call's
\* candidate when that one selected in between. Nothing restores a call's own
\* selection before its run.
C14_RunUnderLatestSelection ==
    \A p \in Calls : \A j \in 1..Len(c_log[p]) :
        /\ c_seen[p][j].by \in Calls
        /\ c_log[p][j].selected = c_seen[p][j].name
        /\ c_seen[p][j].by = p => c_log[p][j].selected = OwnCandidate(p, j)
        /\ c_seen[p][j].by # p =>
              \E k \in 1..Len(c_cands[c_seen[p][j].by]) :
                  c_log[p][j].selected = c_cands[c_seen[p][j].by][k]

\* C14 witness: a call has returned after a run made under the other call's
\* selection, and the selection left on the agent is not its own last candidate
C14_Witness ==
    \E p \in Calls :
        /\ c_pc[p] = "done"
        /\ c_log[p] # <<>>
        /\ \E j \in 1..Len(c_log[p]) : Leaked(p, j)
        /\ CAgent(p).model_name # OwnCandidate(p, Len(c_log[p]))

-----------------------------------------------------------------------------
(* planner/chain_planner.py *)

\* the default of the constructor's model_name parameter (line 7)
PlannerModelName == "flan-t5-base"

\* lines 9-13: the pipeline loaded from the named backend, or None
PlannerConstruct(name, load_ok) == IF load_ok THEN name ELSE None

StrPlannerNotLoaded ==
    <<"P", "l", "a", "n", "n", "e", "r", " ", "m", "o", "d", "e", "l", " ", "n", "o",
      "t", " ", "l", "o", "a", "d", "e", "d", ".">>

StrSummarizerAgent ==
    <<"S", "u", "m", "m", "a", "r", "i", "z", "e", "r", "A", "g", "e", "n", "t">>
StrCodeReviewerAgent ==
    <<"C", "o", "d", "e", "R", "e", "v", "i", "e", "w", "e", "r", "A", "g", "e", "n", "t">>
StrPersonaAgent ==
    <<"P", "e", "r", "s", "o", "n", "a", "A", "g", "e", "n", "t">>
StrFollowUpAgent ==
    <<"F", "o", "l", "l", "o", "w", "U", "p", "A", "g", "e", "n", "t">>
StrClarityAgent ==
    <<"C", "l", "a", "r", "i", "t", "y", "A", "g", "e", "n", "t">>

\* the agent names the prompt of line 19 offers
KnownAgentNames ==
    {StrSummarizerAgent, StrCodeReviewerAgent, StrPersonaAgent, StrFollowUpAgent,
     StrClarityAgent}

Separator == <<",", " ">>

\* s has sep at position i
HasAt(s, sep, i) ==
    /\ i + Len(sep) - 1 <= Len(s)
    /\ \A k \in 1..Len(sep) : s[i + k - 1] = sep[k]

\* str.split(sep) from position i on, cur being the piece under way
RECURSIVE SplitFrom(_, _, _, _, _)
SplitFrom(s, sep, i, cur, acc) ==
    IF i > Len(s) THEN Append(acc, cur)
    ELSE IF HasAt(s, sep, i) THEN SplitFrom(s, sep, i + Len(sep), <<>>, Append(acc, cur))
    ELSE SplitFrom(s, sep, i + 1, Append(cur, s[i]), acc)

\* a split at every comma, whatever follows it
split_on_comma(raw) == SplitFrom(raw, <<",">>, 1, <<>>, <<>>)

\* raw_output.split(", ") (line 25)
split(raw) == SplitFrom(raw, Separator, 1, <<>>, <<>>)

\* sep.join(parts)
RECURSIVE Join(_, _)
Join(parts, sep) ==
    IF parts = <<>> THEN <<>>
    ELSE IF Len(parts) = 1 THEN parts[1]
    ELSE parts[1] \o sep \o Join(Tail(parts), sep)

\* suggest_chain without the try/except of lines 20 and 28-30
suggest_chain_no_except(planner_model, goal, outcome) ==
    IF planner_model = None
    THEN [exc |-> None, ret |-> [error |-> StrPlannerNotLoaded], invoked |-> <<>>]
    ELSE LET call == [backend |-> planner_model, goal |-> goal] IN
         IF outcome.kind = "returns"
         THEN [exc |-> None,
               ret |-> [goal |-> goal, suggested_chain |-> split(outcome.text),
                        raw_output |-> outcome.text],
               invoked |-> <<call>>]
         ELSE [exc |-> "Exception", ret |-> <<>>, invoked |-> <<call>>]

\* suggest_chain that asks the pipeline a second time when the first call fails
suggest_chain_retry(planner_model, goal, outcome) ==
    IF planner_model = None
    THEN [exc |-> None, ret |-> [error |-> StrPlannerNotLoaded], invoked |-> <<>>]
    ELSE LET call == [backend |-> planner_model, goal |-> goal] IN
         IF outcome.kind = "returns"
         THEN [exc |-> None,
               ret |-> [goal |-> goal, suggested_chain |-> split(outcome.text),
                        raw_output |-> outcome.text],
               invoked |-> <<call>>]
         ELSE [exc |-> None, ret |-> [error |-> StrException], invoked |-> <<call, call>>]

(* ChainPlanner.suggest_chain (lines 15-30) on a planner whose model field  *)
(* is planner_model. outcome is what the pipeline call of line 21 does:     *)
(* "raises", "empty" (it returns a list without a first element, so line 22 *)
(* raises) or "returns" with the generated text. The prompt of line 19 is   *)
(* kept as the goal it embeds.                                              *)
suggest_chain(planner_model, goal, outcome) ==
    IF planner_model = None
    THEN [exc |-> None, ret |-> [error |-> StrPlannerNotLoaded], invoked |-> <<>>]
    ELSE LET call == [backend |-> planner_model, goal |-> goal] IN
         IF outcome.kind = "returns"
         THEN [exc |-> None,
               ret |-> [goal |-> goal, suggested_chain |-> split(outcome.text),
                        raw_output |-> outcome.text],
               invoked |-> <<call>>]
         ELSE [exc |-> None, ret |-> [error |-> StrException], invoked |-> <<call>>]

MaxRaw == 4

MaxPlannerCalls == 2

RawAlphabet == {"a", ",", " "}

StrExamplePlan ==
    <<"S", "u", "m", "m", "a", "r", "i", "z", "e", "r", "A", "g", "e", "n", "t", ",",
      " ", "F", "o", "l", "l", "o", "w", "U", "p", "A", "g", "e", "n", "t">>

\* the texts the planning backend generates
RawTexts ==
    UNION {[1..n -> RawAlphabet] : n \in 0..MaxRaw} \cup {StrExamplePlan}

PlannerOutcomes ==
    {[kind |-> "raises", text |-> <<>>], [kind |-> "empty", text |-> <<>>]}
    \cup {[kind |-> "returns", text |-> t] : t \in RawTexts}

Goals == {<<>>, <<"F", "i", "x", " ", "t", "h", "e", " ", "b", "u", "g">>}

NoPayload == [pending |-> TRUE]

InitPlanner ==
    /\ \E load_ok \in BOOLEAN : pl_model = PlannerConstruct(PlannerModelName, load_ok)
    /\ pl_count = 0
    /\ pl_goal = <<>>
    /\ pl_outcome = [kind |-> "raises", text |-> <<>>]
    /\ pl_ret = NoPayload
    /\ pl_exc = None
    /\ pl_invoked = <<>>
    /\ OrchParked /\ ValidatorParked /\ DummyParked /\ ConcParked
    /\ RouterParked /\ MMParked /\ ExtraParked

planner_suggest_chain ==
    /\ pl_count < MaxPlannerCalls
    /\ \E goal \in Goals, outcome \in PlannerOutcomes :
          LET r == suggest_chain(pl_model, goal, outcome) IN
          /\ pl_goal' = goal
          /\ pl_outcome' = outcome
          /\ pl_ret' = IF r.exc = None THEN r.ret ELSE NoPayload
          /\ pl_exc' = r.exc
          /\ pl_invoked' = r.invoked
    /\ pl_count' = pl_count + 1
    /\ UNCHANGED pl_model
    /\ UNCHANGED <<orchVars, validatorVars, dummyVars, concVars, routerVars, mmVars,
                 extraVars>>

NextPlanner == planner_suggest_chain

SpecPlanner == InitPlanner /\ [][NextPlanner]_vars

\* the latest suggest_chain call succeeded: planner loaded, text generated
PlannerSucceeded ==
    pl_count > 0 /\ pl_model # None /\ pl_outcome.kind = "returns"

\* the latest suggest_chain call failed: planner not loaded, or line 21/22 raised
PlannerFailed ==
    pl_count > 0 /\ (pl_model = None \/ pl_outcome.kind # "returns")

\* sep occurs somewhere in s
Occurs(sep, s) == \E i \in 1..Len(s) : HasAt(s, sep, i)

\* C15: a successful suggest_chain returns the goal, the raw text the backend
\* generated and the plan split from it at ", ": the plan has at least one
\* element, none of its elements contains ", ", joined with ", " it is the raw
\* text again (so order and content are kept), no element is checked against
\* the known agent names, and the example text gives the two names.
C15_PlanSplitsRawText ==
    PlannerSucceeded =>
        /\ pl_exc = None
        /\ DOMAIN pl_ret = {"goal", "suggested_chain", "raw_output"}
        /\ pl_ret.goal = pl_goal
        /\ pl_ret.raw_output = pl_outcome.text
        /\ Len(pl_ret.suggested_chain) >= 1
        /\ \A k \in 1..Len(pl_ret.suggested_chain) :
              ~Occurs(Separator, pl_ret.suggested_chain[k])
        /\ Join(pl_ret.suggested_chain, Separator) = pl_ret.raw_output
        /\ pl_ret.raw_output = StrExamplePlan =>
              pl_ret.suggested_chain = <<StrSummarizerAgent, StrFollowUpAgent>>

\* C15 witness: a plan of several elements, one of them a comma left over by a
\* separator that did not match, none of them a known agent name
C15_Witness ==
    /\ PlannerSucceeded
    /\ Len(pl_ret.suggested_chain) = 2
    /\ \E k \in 1..2 : pl_ret.suggested_chain[k] = <<"a", ",">>
    /\ \A k \in 1..2 : pl_ret.suggested_chain[k] \notin KnownAgentNames

\* C16: suggest_chain never raises; its dict has the key "error", and no plan,
\* exactly when the planner is not loaded or the pipeline call failed, and a
\* successful dict has no key "error".
C16_FailureIsErrorPayload ==
    pl_count > 0 =>
        /\ pl_exc = None
        /\ PlannerFailed <=> "error" \in DOMAIN pl_ret
        /\ PlannerFailed => DOMAIN pl_ret = {"error"}
        /\ PlannerSucceeded <=> "suggested_chain" \in DOMAIN pl_ret
        /\ pl_model = None => pl_ret = [error |-> StrPlannerNotLoaded]

\* C16 witness: a loaded planner whose pipeline call raised returned an error
C16_Witness ==
    /\ pl_count > 0
    /\ pl_model # None
    /\ pl_outcome.kind = "raises"
    /\ "error" \in DOMAIN pl_ret

\* C17: a suggest_chain call invokes the pipeline at most once, on the backend
\* the planner was constructed with and with the goal it was given; not at all
\* when the planner is not loaded, and exactly once, ending in an error, when
\* the invocation fails.
C17_OneInvocationNoFallback ==
    pl_count > 0 =>
        /\ Len(pl_invoked) <= 1
        /\ \A k \in 1..Len(pl_invoked) :
              pl_invoked[k] = [backend |-> PlannerModelName, goal |-> pl_goal]
        /\ pl_model = None => pl_invoked = <<>>
        /\ pl_model # None => Len(pl_invoked) = 1
        /\ (pl_model # None /\ pl_outcome.kind # "returns") =>
              /\ Len(pl_invoked) = 1
              /\ "error" \in DOMAIN pl_ret

\* C17 witness: the one invocation of a call failed and the call ended there
C17_Witness ==
    /\ pl_count = MaxPlannerCalls
    /\ pl_model # None
    /\ pl_outcome.kind = "empty"
    /\ Len(pl_invoked) = 1
    /\ DOMAIN pl_ret = {"error"}

-----------------------------------------------------------------------------
(* models/model_router.py *)

\* a router whose default is another backend
get_model_for_agent_other_default(config, agent_name, text) ==
    Get(config, agent_name, "flan-t5-base")

\* get_model_for_agent (lines 7-10), config being the loaded JSON object
get_model_for_agent(config, agent_name, text) ==
    Get(config, agent_name, "t5-small")

MaxRouterCalls == 3

RouterAgents == {"SummarizerAgent", "CodeReviewerAgent"}

RouterBackends == {"t5-small", "flan-t5-base", "codet5-small"}

\* the backends the configuration may name for the summarizer
SummarizerBackends == {"t5-small", "flan-t5-base"}

\* the contents the file at AGENT_CONFIG_PATH may have: a JSON object giving
\* some agents a backend, the summarizer one of its two
AgentConfigs ==
    { c \in UNION {[D -> RouterBackends] : D \in SUBSET RouterAgents} :
        "SummarizerAgent" \in DOMAIN c => c["SummarizerAgent"] \in SummarizerBackends }

RouterAgentNames == RouterAgents \cup {"TranslatorAgent"}

InitRouter ==
    /\ rt_config \in AgentConfigs
    /\ rt_calls = {}
    /\ OrchParked /\ ValidatorParked /\ DummyParked /\ ConcParked
    /\ PlannerParked /\ MMParked /\ ExtraParked

router_call ==
    /\ Cardinality(rt_calls) < MaxRouterCalls
    /\ \E a \in RouterAgentNames, t \in InputTexts :
          rt_calls' = rt_calls \cup
              {[agent_name |-> a, text |-> t, out |-> get_model_for_agent(rt_config, a, t)]}
    /\ UNCHANGED rt_config
    /\ UNCHANGED <<orchVars, validatorVars, dummyVars, concVars, planVars, mmVars,
                 extraVars>>

NextRouter == router_call

SpecRouter == InitRouter /\ [][NextRouter]_vars

-----------------------------------------------------------------------------
(* model_manager.py: ModelManager. A Python value is a record of its type   *)
(* and its repr, so that what json.dump writes and json.load reads back is  *)
(* computed from the value; a dict is a function from its keys.             *)

PyFloat(r) == [kind |-> "float", repr |-> r]
PyInt(r) == [kind |-> "int", repr |-> r]
PyStr(r) == [kind |-> "str", repr |-> r]

Quote == "\""

\* json.dump of a number or a string without characters to escape
JsonDump(v) ==
    IF v.kind = "str" THEN <<Quote>> \o v.repr \o <<Quote>> ELSE v.repr

\* json.load of one number or string
JsonLoad(tok) ==
    IF tok[1] = Quote THEN PyStr(SubSeq(tok, 2, Len(tok) - 1))
    ELSE IF \E k \in 1..Len(tok) : tok[k] \in {".", "e", "E"} THEN PyFloat(tok)
    ELSE PyInt(tok)

\* line 16
DEFAULT_MODEL ==
    PyStr(<<"g", "p", "t", "-", "3", ".", "5", "-", "t", "u", "r", "b", "o">>)

\* lines 17-23
DEFAULT_PARAMS ==
    [temperature       |-> PyFloat(<<"0", ".", "7">>),
     max_tokens        |-> PyInt(<<"1", "0", "0", "0">>),
     top_p             |-> PyFloat(<<"1", ".", "0">>),
     frequency_penalty |-> PyFloat(<<"0", ".", "0">>),
     presence_penalty  |-> PyFloat(<<"0", ".", "0">>)]

EmptyDict == [k \in {} |-> None]

\* d[key] = value
DictSet(d, key, value) ==
    [k \in DOMAIN d \cup {key} |-> IF k = key THEN value ELSE d[k]]

\* {**a, **b}
DictMerge(a, b) ==
    [k \in DOMAIN a \cup DOMAIN b |-> IF k \in DOMAIN b THEN b[k] ELSE a[k]]

\* set_parameter without the check of lines 78-79
set_parameter_unchecked(params, param_name, param_value) ==
    [exc |-> None, params |-> DictSet(params, param_name, param_value)]

\* set_parameter (lines 67-81) on current_params
set_parameter(params, param_name, param_value) ==
    IF param_name \notin DOMAIN DEFAULT_PARAMS
    THEN [exc |-> "ValueError", params |-> params]
    ELSE [exc |-> None, params |-> DictSet(params, param_name, param_value)]

\* get_all_parameters (lines 101-108): a new dict with the same items; alias
\* tells whether the returned dict is the manager's own object
get_all_parameters(params) == [dict |-> params, alias |-> FALSE]

\* the file content save_profile writes (lines 118-129)
save_profile(model_value, params, overrides) ==
    LET merged == DictMerge(params, overrides) IN
    [model      |-> JsonDump(model_value),
     parameters |-> [k \in DOMAIN merged |-> JsonDump(merged[k])]]

\* load_profile that reads the parameters and leaves the model as it is
load_profile_params_only(files, profile_name, model_value, params) ==
    IF profile_name \notin DOMAIN files
    THEN [ret |-> "False", model |-> model_value, params |-> params]
    ELSE LET profile == files[profile_name] IN
         [ret    |-> "True",
          model  |-> model_value,
          params |-> IF "parameters" \in DOMAIN profile
                     THEN [k \in DOMAIN profile.parameters |->
                              JsonLoad(profile.parameters[k])]
                     ELSE DEFAULT_PARAMS]

\* load_profile (lines 131-152): files are the files of config_dir by profile
\* name; returns the return value and the new current_model, current_params
load_profile(files, profile_name, model_value, params) ==
    IF profile_name \notin DOMAIN files
    THEN [ret |-> "False", model |-> model_value, params |-> params]
    ELSE LET profile == files[profile_name] IN
         [ret    |-> "True",
          model  |-> IF "model" \in DOMAIN profile THEN JsonLoad(profile.model)
                     ELSE DEFAULT_MODEL,
          params |-> IF "parameters" \in DOMAIN profile
                     THEN [k \in DOMAIN profile.parameters |->
                              JsonLoad(profile.parameters[k])]
                     ELSE DEFAULT_PARAMS]

MaxMMSteps == 5

ModelNames == {DEFAULT_MODEL, PyStr(<<"g", "p", "t", "-", "4">>)}

\* the names handed to set_parameter: two of the five and one that is none
ParamNameInputs == {"temperature", "max_tokens", "stop"}

\* the values handed to set_parameter: a float, and a string that reads like it
ParamValues == {PyFloat(<<"0", ".", "2">>), PyStr(<<"0", ".", "2">>)}

ProfileNames == {"fast", "safe"}

\* the params argument of save_profile: left out, one of the five parameters,
\* or a key that is none of them (the dict is merged as it comes, line 123)
Overrides == {EmptyDict, [top_p |-> PyFloat(<<"0", ".", "5">>)],
              [stop |-> PyStr(<<"E", "N", "D">>)]}

\* the call just made and the state it started from
LastCall(op, name, value) ==
    [op |-> op, name |-> name, value |-> value,
     pre_model |-> mm_model, pre_params |-> mm_params]

NeverSaved == [saved |-> FALSE, model |-> DEFAULT_MODEL, params |-> EmptyDict,
               overrides |-> EmptyDict]

\* lines 25-36, in a config_dir without profiles
InitMM ==
    /\ mm_model = DEFAULT_MODEL
    /\ mm_params = DEFAULT_PARAMS
    /\ mm_files = EmptyDict
    /\ mm_ret = None
    /\ mm_exc = None
    /\ mm_held = [got |-> FALSE, alias |-> FALSE, dict |-> EmptyDict]
    /\ mm_last = [op |-> "init", name |-> None, value |-> DEFAULT_MODEL,
                  pre_model |-> DEFAULT_MODEL, pre_params |-> DEFAULT_PARAMS]
    /\ mm_snap = [n \in ProfileNames |-> NeverSaved]
    /\ mm_steps = 0
    /\ OrchParked /\ ValidatorParked /\ DummyParked /\ ConcParked
    /\ PlannerParked /\ RouterParked /\ ExtraParked

\* what the dict a caller holds becomes when the manager's dict becomes d
HeldAfter(d) == IF mm_held.alias THEN [mm_held EXCEPT !.dict = d] ELSE mm_held

\* lines 49-56
mm_set_model ==
    /\ mm_steps < MaxMMSteps
    /\ \E name \in ModelNames :
          /\ mm_model' = name
          /\ mm_last' = LastCall("set_model", None, name)
    /\ mm_ret' = None
    /\ mm_exc' = None
    /\ mm_steps' = mm_steps + 1
    /\ UNCHANGED <<mm_params, mm_files, mm_held, mm_snap>>
    /\ UNCHANGED <<orchVars, validatorVars, dummyVars, concVars, planVars, routerVars,
                 extraVars>>

\* lines 67-81
mm_set_parameter ==
    /\ mm_steps < MaxMMSteps
    /\ \E name \in ParamNameInputs, value \in ParamValues :
          LET r == set_parameter(mm_params, name, value) IN
          /\ mm_params' = r.params
          /\ mm_exc' = r.exc
          /\ mm_held' = HeldAfter(r.params)
          /\ mm_last' = LastCall("set_parameter", name, value)
    /\ mm_ret' = None
    /\ mm_steps' = mm_steps + 1
    /\ UNCHANGED <<mm_model, mm_files, mm_snap>>
    /\ UNCHANGED <<orchVars, validatorVars, dummyVars, concVars, planVars, routerVars,
                 extraVars>>

\* lines 101-108, the caller keeping the dict it gets
mm_get_all_parameters ==
    /\ mm_steps < MaxMMSteps
    /\ LET r == get_all_parameters(mm_params) IN
          mm_held' = [got |-> TRUE, alias |-> r.alias, dict |-> r.dict]
    /\ mm_last' = LastCall("get_all_parameters", None, DEFAULT_MODEL)
    /\ mm_ret' = None
    /\ mm_exc' = None
    /\ mm_steps' = mm_steps + 1
    /\ UNCHANGED <<mm_model, mm_params, mm_files, mm_snap>>
    /\ UNCHANGED <<orchVars, validatorVars, dummyVars, concVars, planVars, routerVars,
                 extraVars>>

\* the caller assigns to a key of the dict it got from get_all_parameters
mm_mutate_held ==
    /\ mm_steps < MaxMMSteps
    /\ mm_held.got
    /\ \E name \in ParamNameInputs, value \in ParamValues :
          LET d == DictSet(mm_held.dict, name, value) IN
          /\ mm_held' = [mm_held EXCEPT !.dict = d]
          /\ mm_params' = IF mm_held.alias THEN d ELSE mm_params
          /\ mm_last' = LastCall("mutate_held", name, value)
    /\ mm_ret' = None
    /\ mm_exc' = None
    /\ mm_steps' = mm_steps + 1
    /\ UNCHANGED <<mm_model, mm_files, mm_snap>>
    /\ UNCHANGED <<orchVars, validatorVars, dummyVars, concVars, planVars, routerVars,
                 extraVars>>

\* lines 110-129
mm_save_profile ==
    /\ mm_steps < MaxMMSteps
    /\ \E name \in ProfileNames, params \in Overrides :
          /\ mm_files' = DictSet(mm_files, name, save_profile(mm_model, mm_params, params))
          /\ mm_snap' = [mm_snap EXCEPT ![name] =
                            [saved |-> TRUE, model |-> mm_model, params |-> mm_params,
                             overrides |-> params]]
          /\ mm_last' = LastCall("save_profile", name, DEFAULT_MODEL)
    /\ mm_ret' = None
    /\ mm_exc' = None
    /\ mm_steps' = mm_steps + 1
    /\ UNCHANGED <<mm_model, mm_params, mm_held>>
    /\ UNCHANGED <<orchVars, validatorVars, dummyVars, concVars, planVars, routerVars,
                 extraVars>>

\* lines 131-152
mm_load_profile ==
    /\ mm_steps < MaxMMSteps
    /\ \E name \in ProfileNames :
          LET r == load_profile(mm_files, name, mm_model, mm_params) IN
          /\ mm_model' = r.model
          /\ mm_params' = r.params
          /\ mm_ret' = r.ret
          /\ mm_held' = IF r.ret = "True" THEN [mm_held EXCEPT !.alias = FALSE] ELSE mm_held
          /\ mm_last' = LastCall("load_profile", name, DEFAULT_MODEL)
    /\ mm_exc' = None
    /\ mm_steps' = mm_steps + 1
    /\ UNCHANGED <<mm_files, mm_snap>>
    /\ UNCHANGED <<orchVars, validatorVars, dummyVars, concVars, planVars, routerVars,
                 extraVars>>

NextMM ==
    \/ mm_set_model
    \/ mm_set_parameter
    \/ mm_get_all_parameters
    \/ mm_mutate_held
    \/ mm_save_profile
    \/ mm_load_profile

SpecMM == InitMM /\ [][NextMM]_vars

\* C19: set_parameter with a name that is none of the five default names
\* raises ValueError and leaves model and parameters as they were; with one of
\* the five it raises nothing, gives that parameter the value and leaves the
\* model and the other parameters alone; the dict a caller got from
\* get_all_parameters has the manager's items, and assigning to it leaves the
\* manager's model and parameters as they were.
C19_SetParameterChecksName ==
    /\ mm_last.op = "set_parameter" =>
          IF mm_last.name \in DOMAIN DEFAULT_PARAMS
          THEN /\ mm_exc = None
               /\ mm_model = mm_last.pre_model
               /\ DOMAIN mm_params = DOMAIN mm_last.pre_params \cup {mm_last.name}
               /\ mm_params[mm_last.name] = mm_last.value
               /\ \A k \in DOMAIN mm_last.pre_params :
                     k # mm_last.name => mm_params[k] = mm_last.pre_params[k]
          ELSE /\ mm_exc = "ValueError"
               /\ mm_model = mm_last.pre_model
               /\ mm_params = mm_last.pre_params
    /\ mm_last.op = "get_all_parameters" =>
          /\ mm_held.dict = mm_params
          /\ mm_model = mm_last.pre_model
          /\ mm_params = mm_last.pre_params
    /\ mm_last.op = "mutate_held" =>
          /\ mm_model = mm_last.pre_model
          /\ mm_params = mm_last.pre_params
          /\ mm_held.dict[mm_last.name] = mm_last.value

\* C19 witness: a set_parameter with an invalid name has just raised, after a
\* caller changed the dict it had got, which now differs from the manager's
C19_Witness ==
    /\ mm_last.op = "set_parameter"
    /\ mm_last.name = "stop"
    /\ mm_exc = "ValueError"
    /\ mm_held.got
    /\ mm_held.dict # mm_params
    /\ mm_params # DEFAULT_PARAMS

\* C20: load_profile of a name never saved returns False and leaves model and
\* parameters as they were; load_profile of a name last saved without
\* overrides returns True and makes model and parameters what they were at
\* that save, whatever set_model and set_parameter did in between.
C20_ProfileRoundTrip ==
    mm_last.op = "load_profile" =>
        LET snap == mm_snap[mm_last.name] IN
        /\ ~snap.saved =>
              /\ mm_ret = "False"
              /\ mm_model = mm_last.pre_model
              /\ mm_params = mm_last.pre_params
        /\ (snap.saved /\ snap.overrides = EmptyDict) =>
              /\ mm_ret = "True"
              /\ mm_model = snap.model
              /\ mm_params = snap.params

\* C20 witness: a load has brought back a model and a string-valued parameter
\* that set_model and set_parameter had changed after the save
C20_Witness ==
    /\ mm_last.op = "load_profile"
    /\ mm_ret = "True"
    /\ mm_snap[mm_last.name].overrides = EmptyDict
    /\ mm_model # mm_last.pre_model
    /\ mm_params # mm_last.pre_params
    /\ mm_params["temperature"].kind = "str"

\* C24: the keys of current_params are exactly the five default parameter
\* names, whatever set_model, set_parameter, save_profile (with or without
\* overrides) and load_profile calls were made.
C24_ParamKeysAreDefaults ==
    DOMAIN mm_params = DOMAIN DEFAULT_PARAMS

-----------------------------------------------------------------------------
(* prompt_manager.py: PromptManager, the table saved_prompts (lines 52-62). *)
(* A row is a record of the table's columns; names, prompts, descriptions   *)
(* and timestamps are compared only, tags are joined, so only tags are kept *)
(* character by character. An optional list argument is a record telling    *)
(* whether it was given.                                                    *)

NoList == [given |-> FALSE, list |-> <<>>]
ListOf(l) == [given |-> TRUE, list |-> l]

\* the rows of the table that have the name
RowsNamed(rows, name) == {r \in rows : r.name = name}

\* ",".join(tags) if tags else "" (line 152)
SaveTagsStr(tags) ==
    IF tags.given /\ tags.list # <<>> THEN Join(tags.list, <<",">>) ELSE <<>>

\* save_prompt on a table whose column name is not declared UNIQUE
save_prompt_no_unique(rows, next_id, now, name, prompt, description, tags) ==
    [exc  |-> None,
     ret  |-> next_id,
     rows |-> rows \cup {[id |-> next_id, name |-> name, prompt |-> prompt,
                          description |-> description, tags |-> SaveTagsStr(tags),
                          created_at |-> now, updated_at |-> now]},
     next_id |-> next_id + 1]

\* save_prompt (lines 135-162): the INSERT fails with IntegrityError on a name
\* the table has (name TEXT UNIQUE, line 55), which line 162 turns into
\* ValueError; otherwise the row gets the next id, which is returned
save_prompt(rows, next_id, now, name, prompt, description, tags) ==
    IF RowsNamed(rows, name) # {}
    THEN [exc |-> "ValueError", ret |-> None, rows |-> rows, next_id |-> next_id]
    ELSE [exc  |-> None,
          ret  |-> next_id,
          rows |-> rows \cup {[id |-> next_id, name |-> name, prompt |-> prompt,
                               description |-> description, tags |-> SaveTagsStr(tags),
                               created_at |-> now, updated_at |-> now]},
          next_id |-> next_id + 1]

\* update_saved_prompt (lines 164-199)
update_saved_prompt(rows, now, name, prompt, description, tags) ==
    IF RowsNamed(rows, name) = {}
    THEN [ret |-> "False", rows |-> rows]
    ELSE [ret  |-> "True",
          rows |-> { IF r.name # name THEN r
                     ELSE [r EXCEPT
                             !.prompt = IF prompt # None THEN prompt ELSE @,
                             !.description = IF description # None THEN description ELSE @,
                             !.tags = IF tags.given THEN Join(tags.list, <<",">>) ELSE @,
                             !.updated_at = now] : r \in rows }]

\* delete_saved_prompt (lines 270-283): rowcount is the number of rows deleted
delete_saved_prompt(rows, name) ==
    [ret  |-> IF Cardinality(RowsNamed(rows, name)) > 0 THEN "True" ELSE "False",
     rows |-> rows \ RowsNamed(rows, name)]

MaxPMSteps == 3

PromptNames == {"review", "summary"}

PromptTexts == {"Review this code", "Summarize this"}

\* description and tags as save_prompt gets them: both left out, or both given
SaveExtras == {[description |-> None, tags |-> NoList],
               [description |-> "first", tags |-> ListOf(<<<<"a">>, <<"b">>>>)]}

UpdateTags == {NoList, ListOf(<<>>), ListOf(<<<<"c">>>>)}

InitPM ==
    /\ pm_rows = {}
    /\ pm_next_id = 1
    /\ pm_clock = 1
    /\ pm_ret = None
    /\ pm_exc = None
    /\ pm_last = [op |-> "init", name |-> None, prompt |-> None, description |-> None,
                  tags |-> NoList, pre_rows |-> {}]
    /\ OrchParked /\ ValidatorParked /\ DummyParked /\ ConcParked /\ LaterParked
    /\ TMParked /\ CLIParked /\ SvcParked /\ IMParked

pm_save_prompt ==
    /\ pm_clock <= MaxPMSteps
    /\ \E name \in PromptNames, prompt \in PromptTexts, x \in SaveExtras :
          LET r == save_prompt(pm_rows, pm_next_id, pm_clock, name, prompt,
                               x.description, x.tags) IN
          /\ pm_rows' = r.rows
          /\ pm_next_id' = r.next_id
          /\ pm_ret' = r.ret
          /\ pm_exc' = r.exc
          /\ pm_last' = [op |-> "save_prompt", name |-> name, prompt |-> prompt,
                         description |-> x.description, tags |-> x.tags,
                         pre_rows |-> pm_rows]
    /\ pm_clock' = pm_clock + 1
    /\ UNCHANGED <<orchVars, validatorVars, dummyVars, concVars, laterVars, tmVars,
                 cliVars, svcVars, imVars>>

pm_update_saved_prompt ==
    /\ pm_clock <= MaxPMSteps
    /\ \E name \in PromptNames, prompt \in {None, "Summarize this"},
          description \in {None, "second"}, tags \in UpdateTags :
          LET r == update_saved_prompt(pm_rows, pm_clock, name, prompt, description, tags) IN
          /\ pm_rows' = r.rows
          /\ pm_ret' = r.ret
          /\ pm_last' = [op |-> "update_saved_prompt", name |-> name, prompt |-> prompt,
                         description |-> description, tags |-> tags,
                         pre_rows |-> pm_rows]
    /\ pm_exc' = None
    /\ pm_clock' = pm_clock + 1
    /\ UNCHANGED pm_next_id
    /\ UNCHANGED <<orchVars, validatorVars, dummyVars, concVars, laterVars, tmVars,
                 cliVars, svcVars, imVars>>

pm_delete_saved_prompt ==
    /\ pm_clock <= MaxPMSteps
    /\ \E name \in PromptNames :
          LET r == delete_saved_prompt(pm_rows, name) IN
          /\ pm_rows' = r.rows
          /\ pm_ret' = r.ret
          /\ pm_last' = [op |-> "delete_saved_prompt", name |-> name, prompt |-> None,
                         description |-> None, tags |-> NoList, pre_rows |-> pm_rows]
    /\ pm_exc' = None
    /\ pm_clock' = pm_clock + 1
    /\ UNCHANGED pm_next_id
    /\ UNCHANGED <<orchVars, validatorVars, dummyVars, concVars, laterVars, tmVars,
                 cliVars, svcVars, imVars>>

NextPM ==
    \/ pm_save_prompt
    \/ pm_update_saved_prompt
    \/ pm_delete_saved_prompt

SpecPM == InitPM /\ [][NextPM]_vars

\* the one row of that name before the latest call
PreRow(name) == CHOOSE r \in RowsNamed(pm_last.pre_rows, name) : TRUE
\* the one row of that name now
NowRow(name) == CHOOSE r \in RowsNamed(pm_rows, name) : TRUE

\* C21: no two rows of saved_prompts have the same name; save_prompt with a
\* name the table has raises ValueError and leaves the table as it was;
\* update_saved_prompt returns False and leaves the table as it was when the
\* name is absent, and otherwise returns True, keeps each of prompt,
\* description and tags that was passed as None and leaves the other rows
\* alone; delete_saved_prompt returns True exactly when the name was there,
\* and the name is gone afterwards.
C21_SavedPromptNamesUnique ==
    /\ \A r1, r2 \in pm_rows : r1.name = r2.name => r1 = r2
    /\ pm_last.op = "save_prompt" =>
          IF RowsNamed(pm_last.pre_rows, pm_last.name) # {}
          THEN pm_exc = "ValueError" /\ pm_rows = pm_last.pre_rows
          ELSE /\ pm_exc = None
               /\ NowRow(pm_last.name).prompt = pm_last.prompt
               /\ pm_ret = NowRow(pm_last.name).id
    /\ pm_last.op = "update_saved_prompt" =>
          IF RowsNamed(pm_last.pre_rows, pm_last.name) = {}
          THEN pm_ret = "False" /\ pm_rows = pm_last.pre_rows
          ELSE /\ pm_ret = "True"
               /\ pm_last.prompt = None =>
                     NowRow(pm_last.name).prompt = PreRow(pm_last.name).prompt
               /\ pm_last.description = None =>
                     NowRow(pm_last.name).description = PreRow(pm_last.name).description
               /\ ~pm_last.tags.given =>
                     NowRow(pm_last.name).tags = PreRow(pm_last.name).tags
               /\ NowRow(pm_last.name).id = PreRow(pm_last.name).id
               /\ \A r \in pm_last.pre_rows : r.name # pm_last.name => r \in pm_rows
    /\ pm_last.op = "delete_saved_prompt" =>
          /\ pm_ret = "True" <=> RowsNamed(pm_last.pre_rows, pm_last.name) # {}
          /\ RowsNamed(pm_rows, pm_last.name) = {}
          /\ \A r \in pm_last.pre_rows : r.name # pm_last.name => r \in pm_rows

\* C21 witness: a second save_prompt under a name that is stored has raised
\* ValueError, the stored row having been updated in between
C21_Witness ==
    /\ pm_last.op = "save_prompt"
    /\ pm_exc = "ValueError"
    /\ \E r \in pm_rows :
          /\ r.name = pm_last.name
          /\ r.prompt # pm_last.prompt
          /\ r.updated_at # r.created_at

-----------------------------------------------------------------------------
(* template_manager.py: TemplateManager. The directory is a function from   *)
(* template names to file contents, the cache a function from names to the  *)
(* content of the cached Template. Contents are texts without carriage      *)
(* returns, which a text-mode write and read give back character by         *)
(* character.                                                               *)

\* del d[key]
DictDel(d, key) == [k \in DOMAIN d \ {key} |-> d[k]]

\* load (lines 87-114)
load(files, cache, template_name) ==
    IF template_name \in DOMAIN cache
    THEN [exc |-> None, ret |-> cache[template_name], cache |-> cache]
    ELSE IF template_name \notin DOMAIN files
    THEN [exc |-> "FileNotFoundError", ret |-> None, cache |-> cache]
    ELSE [exc |-> None, ret |-> files[template_name],
          cache |-> DictSet(cache, template_name, files[template_name])]

\* save that writes the file and leaves the cache as it is
save_file_only(files, cache, template_name, content) ==
    [ret |-> content, files |-> DictSet(files, template_name, content), cache |-> cache]

\* save (lines 116-134)
save(files, cache, template_name, content) ==
    [ret   |-> content,
     files |-> DictSet(files, template_name, content),
     cache |-> DictSet(cache, template_name, content)]

\* delete that removes the file and leaves the cache as it is
delete_file_only(files, cache, template_name) ==
    IF template_name \notin DOMAIN files
    THEN [ret |-> "False", files |-> files, cache |-> cache]
    ELSE [ret |-> "True", files |-> DictDel(files, template_name), cache |-> cache]

\* delete (lines 136-156)
delete(files, cache, template_name) ==
    IF template_name \notin DOMAIN files
    THEN [ret |-> "False", files |-> files, cache |-> cache]
    ELSE [ret   |-> "True",
          files |-> DictDel(files, template_name),
          cache |-> IF template_name \in DOMAIN cache
                    THEN DictDel(cache, template_name) ELSE cache]

\* get_template_content (lines 158-172)
get_template_content(files, cache, template_name) ==
    LET r == load(files, cache, template_name) IN
    IF r.exc = "FileNotFoundError"
    THEN [ret |-> None, cache |-> r.cache]
    ELSE [ret |-> r.ret, cache |-> r.cache]

MaxTMSteps == 4

TemplateNames == {"greet", "bye"}

TemplateContents == {"Hello {{name}}", "Bye {{name}}"}

\* lines 63-72, in a directory that is empty or holds a template already
InitTM ==
    /\ tm_files \in {EmptyDict, [greet |-> "Hello {{name}}"]}
    /\ tm_cache = EmptyDict
    /\ tm_ret = None
    /\ tm_exc = None
    /\ tm_last = [op |-> "init", name |-> None, pre_files |-> EmptyDict]
    /\ tm_was_cached = {}
    /\ tm_steps = 0
    /\ OrchParked /\ ValidatorParked /\ DummyParked /\ ConcParked /\ LaterParked
    /\ PMParked /\ CLIParked /\ SvcParked /\ IMParked

tm_load ==
    /\ tm_steps < MaxTMSteps
    /\ \E name \in TemplateNames :
          LET r == load(tm_files, tm_cache, name) IN
          /\ tm_cache' = r.cache
          /\ tm_ret' = r.ret
          /\ tm_exc' = r.exc
          /\ tm_last' = [op |-> "load", name |-> name, pre_files |-> tm_files]
          /\ tm_was_cached' = tm_was_cached \cup DOMAIN r.cache
    /\ tm_steps' = tm_steps + 1
    /\ UNCHANGED tm_files
    /\ UNCHANGED <<orchVars, validatorVars, dummyVars, concVars, laterVars, pmVars,
                 cliVars, svcVars, imVars>>

tm_save ==
    /\ tm_steps < MaxTMSteps
    /\ \E name \in TemplateNames, content \in TemplateContents :
          LET r == save(tm_files, tm_cache, name, content) IN
          /\ tm_files' = r.files
          /\ tm_cache' = r.cache
          /\ tm_ret' = r.ret
          /\ tm_last' = [op |-> "save", name |-> name, pre_files |-> tm_files]
          /\ tm_was_cached' = tm_was_cached \cup DOMAIN r.cache
    /\ tm_exc' = None
    /\ tm_steps' = tm_steps + 1
    /\ UNCHANGED <<orchVars, validatorVars, dummyVars, concVars, laterVars, pmVars,
                 cliVars, svcVars, imVars>>

tm_delete ==
    /\ tm_steps < MaxTMSteps
    /\ \E name \in TemplateNames :
          LET r == delete(tm_files, tm_cache, name) IN
          /\ tm_files' = r.files
          /\ tm_cache' = r.cache
          /\ tm_ret' = r.ret
          /\ tm_last' = [op |-> "delete", name |-> name, pre_files |-> tm_files]
    /\ tm_exc' = None
    /\ tm_steps' = tm_steps + 1
    /\ UNCHANGED tm_was_cached
    /\ UNCHANGED <<orchVars, validatorVars, dummyVars, concVars, laterVars, pmVars,
                 cliVars, svcVars, imVars>>

tm_get_template_content ==
    /\ tm_steps < MaxTMSteps
    /\ \E name \in TemplateNames :
          LET r == get_template_content(tm_files, tm_cache, name) IN
          /\ tm_cache' = r.cache
          /\ tm_ret' = r.ret
          /\ tm_last' = [op |-> "get_template_content", name |-> name,
                         pre_files |-> tm_files]
          /\ tm_was_cached' = tm_was_cached \cup DOMAIN r.cache
    /\ tm_exc' = None
    /\ tm_steps' = tm_steps + 1
    /\ UNCHANGED tm_files
    /\ UNCHANGED <<orchVars, validatorVars, dummyVars, concVars, laterVars, pmVars,
                 cliVars, svcVars, imVars>>

NextTM ==
    \/ tm_load
    \/ tm_save
    \/ tm_delete
    \/ tm_get_template_content

SpecTM == InitTM /\ [][NextTM]_vars

\* C22: load of a name without a file raises FileNotFoundError, and load of a
\* name with a file returns that file's content; delete returns True exactly
\* when the file was there, and the file is gone afterwards;
\* get_template_content of a name without a file returns None. A name whose
\* delete succeeded has no file, so both hold for it until it is saved again.
C22_MissingTemplateReported ==
    /\ tm_last.op = "load" =>
          IF tm_last.name \in DOMAIN tm_files
          THEN tm_exc = None /\ tm_ret = tm_files[tm_last.name]
          ELSE tm_exc = "FileNotFoundError"
    /\ tm_last.op = "delete" =>
          /\ tm_ret = "True" <=> tm_last.name \in DOMAIN tm_last.pre_files
          /\ tm_last.name \notin DOMAIN tm_files
          /\ tm_exc = None
    /\ tm_last.op = "get_template_content" =>
          /\ tm_exc = None
          /\ IF tm_last.name \in DOMAIN tm_files
             THEN tm_ret = tm_files[tm_last.name]
             ELSE tm_ret = None

\* C22 witness: load has raised FileNotFoundError for a template that had been
\* in the cache and was deleted
C22_Witness ==
    /\ tm_last.op = "load"
    /\ tm_exc = "FileNotFoundError"
    /\ tm_last.name \in tm_was_cached

\* C23: every name in the cache has a file, and the cached content is the
\* content of that file.
C23_CacheMatchesFiles ==
    \A name \in DOMAIN tm_cache :
        /\ name \in DOMAIN tm_files
        /\ tm_cache[name] = tm_files[name]

\* C23 witness: after one template was cached and deleted and another saved
\* with new content, load returns the new content and the cache holds no
\* entry for the deleted one
C23_Witness ==
    /\ tm_last.op = "load"
    /\ tm_last.name = "greet"
    /\ tm_ret = "Bye {{name}}"
    /\ "bye" \in tm_was_cached
    /\ "bye" \notin DOMAIN tm_files
    /\ DOMAIN tm_cache = {"greet"}

-----------------------------------------------------------------------------
(* cli/run_chain.py: main, on the agent classes whose code there is. The   *)
(* call of run_with_fallback (line 42) is made of the steps rwf_open ..     *)
(* rwf_dummy above.                                                         *)

\* --agent (cli_utils.py line 7): a key of AGENT_MAP, or not
CliAgentNames == AgentClasses \cup {"TranslatorAgent"}

\* --mode (cli_utils.py line 10)
CliModes == {"auto", "manual"}

\* --model (cli_utils.py line 9): left out, or a backend id
CliModelArgs == {None, "x", "t5-small"}

\* the contents of the file the router reads
CliAgentConfigs ==
    { EmptyDict,
      [SummarizerAgent |-> "flan-t5-base", CodeReviewerAgent |-> "codet5-small"] }

NoReport == [printed |-> FALSE, agent |-> None, model |-> None, output |-> <<>>]

\* lines 25-32: the arguments are parsed and, for a known agent, the agent is
\* constructed with the default model of its class
InitCLI ==
    /\ cli_args \in [agent : CliAgentNames, mode : CliModes, model : CliModelArgs]
    /\ cli_config \in CliAgentConfigs
    /\ cli_set = None
    /\ cli_report = NoReport
    /\ agent_class = cli_args.agent
    /\ input_text = ConcInputText
    /\ fallback_config \in FallbackConfigs
    /\ IF cli_args.agent \in AgentClasses
       THEN \E load_ok \in BOOLEAN :
               /\ model_name = AgentConstruct(agent_class, DefaultModelName(agent_class),
                                              load_ok).model_name
               /\ model = AgentConstruct(agent_class, DefaultModelName(agent_class),
                                         load_ok).model
       ELSE model_name = None /\ model = None
    /\ pc = "start"
    /\ candidates = <<>>
    /\ idx = 0
    /\ output = <<>>
    /\ log = <<>>
    /\ result = <<>>
    /\ raised = None
    /\ entry_model_name = None
    /\ ValidatorParked /\ DummyParked /\ ConcParked /\ LaterParked
    /\ PMParked /\ TMParked /\ SvcParked /\ IMParked

\* the model main selects (lines 35-39)
main_selected_model(args, config, text) ==
    IF args.mode = "manual" /\ args.model # None
    THEN args.model
    ELSE get_model_for_agent(config, args.agent, text)

\* lines 26-39: an unknown agent ends main; otherwise the model is selected
cli_select ==
    /\ pc = "start"
    /\ IF cli_args.agent \notin AgentClasses
       THEN /\ pc' = "exit"
            /\ UNCHANGED <<model_name, model, cli_set>>
       ELSE LET name == main_selected_model(cli_args, cli_config, input_text) IN
            /\ model_name' = set_model(Agent, name).model_name
            /\ model' = set_model(Agent, name).model
            /\ cli_set' = name
            /\ pc' = "idle"
    /\ UNCHANGED <<agent_class, input_text, fallback_config, candidates, idx,
                   output, log, result, raised, entry_model_name>>
    /\ UNCHANGED <<cli_args, cli_config, cli_report>>
    /\ UNCHANGED <<validatorVars, dummyVars, concVars, laterVars, pmVars, tmVars,
                   svcVars, imVars>>

\* lines 44-48
cli_print ==
    /\ pc = "done"
    /\ raised = None
    /\ cli_report' = [printed |-> TRUE, agent |-> cli_args.agent, model |-> model_name,
                      output |-> result]
    /\ pc' = "printed"
    /\ UNCHANGED <<agent_class, model_name, model, input_text, fallback_config,
                   candidates, idx, output, log, result, raised, entry_model_name>>
    /\ UNCHANGED <<cli_args, cli_config, cli_set>>
    /\ UNCHANGED <<validatorVars, dummyVars, concVars, laterVars, pmVars, tmVars,
                   svcVars, imVars>>

NextCLI ==
    \/ cli_select
    \/ rwf_open
    \/ rwf_set_model
    \/ rwf_run
    \/ rwf_validate
    \/ rwf_dummy
    \/ cli_print

SpecCLI == InitCLI /\ [][NextCLI]_vars

\* the printed output is the output of a run (the last one), not the message
\* of generate_dummy_output
OutputFromRun == log # <<>> /\ is_valid_output(log[Len(log)].ret)

\* C25: the model main prints is the backend whose pipeline produced the
\* printed output; when the printed output is the placeholder of
\* generate_dummy_output, the model printed is none of the candidates.
C25_ReportedModelIsProducer ==
    cli_report.printed =>
        IF OutputFromRun
        THEN cli_report.model = log[Len(log)].invoked
        ELSE \A k \in 1..Len(candidates) : cli_report.model # candidates[k]

\* C26: the first run of the agent is issued with the model main selected: the
\* --model argument in manual mode with a model given, the router's model for
\* the agent otherwise.
C26_FirstRunUsesSelectedModel ==
    (cli_args.agent \in AgentClasses /\ log # <<>>) =>
        /\ log[1].selected = main_selected_model(cli_args, cli_config, input_text)
        /\ log[1].selected = cli_set

-----------------------------------------------------------------------------
(* backend/services/agent_service.py: run_agent. An error text is kept as   *)
(* its fixed part and the value formatted into it.                          *)

\* the names run_agent has a branch for (lines 14-23)
ServiceAgentNames == AgentClasses \cup {"ClarityAgent"}

UnknownAgentError(agent) == [msg |-> "Unknown agent: ", arg |-> agent]
ExecutionFailedError(e) == [msg |-> "Agent execution failed: ", arg |-> e]

\* request.model_name or "auto" (line 10)
RequestedModel(request) ==
    IF request.model_name = None \/ request.model_name = "" THEN "auto"
    ELSE request.model_name

\* ClarityAgent(model_name=model) followed by run(input_text): the class is
\* not among the sources; it is an agent like the others, whose construction
\* or run returns a text or raises
ClarityAgentCall(name, text, outcome) ==
    [exc |-> IF outcome.raises THEN "Exception" ELSE None,
     ret |-> outcome.text,
     constructed |-> <<[cls |-> "ClarityAgent", model_name |-> name]>>]

\* run_agent without the else branch of lines 24-25: agent_instance is not
\* bound for an unknown name and line 28 raises inside the try
run_agent_no_else(request, load_ok, outcome) ==
    LET name == RequestedModel(request) IN
    IF request.agent_name \in AgentClasses
    THEN LET agent == AgentConstruct(request.agent_name, name, load_ok)
             r == AgentRun(request.agent_name, agent, request.input_text, outcome)
         IN  [exc |-> None,
              payload |-> IF r.exc # None THEN [error |-> ExecutionFailedError(r.exc)]
                          ELSE [output |-> r.ret],
              constructed |-> <<[cls |-> request.agent_name,
                                 model_name |-> agent.model_name]>>,
              runs |-> <<r>>]
    ELSE IF request.agent_name = "ClarityAgent"
    THEN LET c == ClarityAgentCall(name, request.input_text, outcome) IN
         [exc |-> None,
          payload |-> IF c.exc # None THEN [error |-> ExecutionFailedError(c.exc)]
                      ELSE [output |-> c.ret],
          constructed |-> c.constructed,
          runs |-> <<>>]
    ELSE [exc |-> None,
          payload |-> [error |-> ExecutionFailedError("UnboundLocalError")],
          constructed |-> <<>>, runs |-> <<>>]

(* run_agent (lines 7-32). load_ok: the pipeline load of the constructor     *)
(* succeeds; outcome: what the pipeline call of run does. constructed lists  *)
(* the agents constructed, runs the agent.run calls made.                    *)
run_agent(request, load_ok, outcome) ==
    LET name == RequestedModel(request) IN
    IF request.agent_name \in AgentClasses
    THEN LET agent == AgentConstruct(request.agent_name, name, load_ok)
             r == AgentRun(request.agent_name, agent, request.input_text, outcome)
         IN  [exc |-> None,
              payload |-> IF r.exc # None THEN [error |-> ExecutionFailedError(r.exc)]
                          ELSE [output |-> r.ret],
              constructed |-> <<[cls |-> request.agent_name,
                                 model_name |-> agent.model_name]>>,
              runs |-> <<r>>]
    ELSE IF request.agent_name = "ClarityAgent"
    THEN LET c == ClarityAgentCall(name, request.input_text, outcome) IN
         [exc |-> None,
          payload |-> IF c.exc # None THEN [error |-> ExecutionFailedError(c.exc)]
                      ELSE [output |-> c.ret],
          constructed |-> c.constructed,
          runs |-> <<>>]
    ELSE [exc |-> None,
          payload |-> [error |-> UnknownAgentError(request.agent_name)],
          constructed |-> <<>>, runs |-> <<>>]

MaxRequests == 2

\* AgentRequest (request_model.py lines 3-6)
Requests ==
    [agent_name : ServiceAgentNames \cup {"TranslatorAgent", "summarizeragent"},
     input_text : InputTexts,
     model_name : {None, "x", "flan-t5-base"}]

InitSvc ==
    /\ svc_request = [agent_name |-> None, input_text |-> <<>>, model_name |-> None]
    /\ svc_payload = NoPayload
    /\ svc_exc = None
    /\ svc_constructed = <<>>
    /\ svc_runs = <<>>
    /\ svc_count = 0
    /\ OrchParked /\ ValidatorParked /\ DummyParked /\ ConcParked /\ LaterParked
    /\ PMParked /\ TMParked /\ CLIParked /\ IMParked

\* routes/agent_runner.py lines 7-12: the endpoint returns what run_agent returns
run_agent_endpoint ==
    /\ svc_count < MaxRequests
    /\ \E request \in Requests, load_ok \in BOOLEAN, outcome \in PipelineOutcomes :
          LET r == run_agent(request, load_ok, outcome) IN
          /\ svc_request' = request
          /\ svc_payload' = IF r.exc = None THEN r.payload ELSE NoPayload
          /\ svc_exc' = r.exc
          /\ svc_constructed' = r.constructed
          /\ svc_runs' = r.runs
    /\ svc_count' = svc_count + 1
    /\ UNCHANGED <<orchVars, validatorVars, dummyVars, concVars, laterVars, pmVars,
                   tmVars, cliVars, imVars>>

NextSvc == run_agent_endpoint

SpecSvc == InitSvc /\ [][NextSvc]_vars

\* C27: run_agent lets no exception out; its dict has exactly one of the keys
\* output and error; for a name it has no branch for, the dict is the error
\* naming that name, and no agent was constructed or run.
C27_ServiceNeverRaises ==
    svc_count > 0 =>
        /\ svc_exc = None
        /\ DOMAIN svc_payload \in {{"output"}, {"error"}}
        /\ svc_request.agent_name \notin ServiceAgentNames =>
              /\ svc_payload = [error |-> UnknownAgentError(svc_request.agent_name)]
              /\ svc_constructed = <<>>
              /\ svc_runs = <<>>
        /\ svc_request.agent_name \in ServiceAgentNames => svc_constructed # <<>>

\* C27 witness: a request naming an agent in another case than the known one
\* got the error naming it, after a request whose agent was run
C27_Witness ==
    /\ svc_count = MaxRequests
    /\ svc_request.agent_name = "summarizeragent"
    /\ svc_payload = [error |-> UnknownAgentError("summarizeragent")]
    /\ svc_constructed = <<>>

\* C28: for a known agent the service constructs the agent with the default
\* model of its class when the request has no model_name and with the
\* request's model_name otherwise, and every pipeline call of the run is made
\* on that backend.
C28_ServiceUsesDefaultBackend ==
    (svc_count > 0 /\ svc_request.agent_name \in AgentClasses) =>
        LET want == IF svc_request.model_name = None
                    THEN DefaultModelName(svc_request.agent_name)
                    ELSE svc_request.model_name
        IN  /\ svc_constructed[1].model_name = want
            /\ \A k \in 1..Len(svc_runs) :
                  svc_runs[k].invoked # None => svc_runs[k].invoked = want

-----------------------------------------------------------------------------
(* cli_manager.py: CLIManager.interactive_mode, one pass of its while loop  *)
(* at a time. What input() does is a line or an exception; what the         *)
(* callback does is a return or an exception.                               *)

StrExit == <<"e", "x", "i", "t">>
StrQuit == <<"q", "u", "i", "t">>

\* the tuple of line 325
ExitWords == {StrExit, StrQuit}

\* what prompt_input (lines 287-297) gives: input() returns a line, or raises
\* KeyboardInterrupt, or raises EOFError at the end of standard input
Line(text) == [kind |-> "line", text |-> text]
InterruptEvent == [kind |-> "KeyboardInterrupt", text |-> <<>>]
EOFEvent == [kind |-> "EOFError", text |-> <<>>]

\* what callback(user_input) does: it returns, raises an Exception, or
\* KeyboardInterrupt is raised while it runs
CallbackOutcomes == {"returns", "raises", "KeyboardInterrupt"}

(* One pass of the loop body, lines 322-340. ended: the loop was left by a   *)
(* break; called: the callback was called; printed: which of print_response, *)
(* print_warning and print_error was called.                                 *)
loop_body(event, outcome) ==
    IF event.kind = "KeyboardInterrupt"
    THEN [ended |-> TRUE, called |-> FALSE, printed |-> "warning"]
    ELSE IF event.kind = "EOFError"
    THEN [ended |-> FALSE, called |-> FALSE, printed |-> "error"]
    ELSE IF Lower(event.text) \in ExitWords
    THEN [ended |-> TRUE, called |-> FALSE, printed |-> "none"]
    ELSE IF Strip(event.text) = <<>>
    THEN [ended |-> FALSE, called |-> FALSE, printed |-> "none"]
    ELSE IF outcome = "returns"
    THEN [ended |-> FALSE, called |-> TRUE, printed |-> "response"]
    ELSE IF outcome = "KeyboardInterrupt"
    THEN [ended |-> TRUE, called |-> TRUE, printed |-> "warning"]
    ELSE [ended |-> FALSE, called |-> TRUE, printed |-> "error"]

MaxCounted == 2

UserLines ==
    {<<>>, <<" ">>, <<" ", "\t">>, <<"h", "i">>, StrExit, StrQuit,
     <<"E", "x", "i", "t">>, <<"Q", "U", "I", "T">>, <<" ", "e", "x", "i", "t">>}

\* what standard input can give next: nothing but its end once it was reached;
\* an interrupt can come at any time
UserEvents ==
    IF im_eof THEN {EOFEvent, InterruptEvent}
    ELSE {Line(t) : t \in UserLines} \cup {EOFEvent, InterruptEvent}

NoPass ==
    [kind |-> "none", text |-> <<>>, outcome |-> "none", ended |-> FALSE,
     called |-> FALSE, printed |-> "none"]

CountUp(n) == IF n < MaxCounted THEN n + 1 ELSE n

NoEvent == [kind |-> "none", text |-> <<>>]

\* interactive_mode is entered (line 319)
InitIM ==
    /\ im_pc = "prompt_input"
    /\ im_event = NoEvent
    /\ im_last = NoPass
    /\ im_eof = FALSE
    /\ im_calls = 0
    /\ im_errors = 0
    /\ OrchParked /\ ValidatorParked /\ DummyParked /\ ConcParked /\ LaterParked
    /\ PMParked /\ TMParked /\ CLIParked /\ SvcParked

\* line 323 with prompt_input, lines 287-297: input() returns or raises
prompt_input ==
    /\ im_pc = "prompt_input"
    /\ \E event \in UserEvents :
          /\ im_event' = event
          /\ im_eof' = (im_eof \/ event.kind = "EOFError")
    /\ im_pc' = "loop_body"
    /\ UNCHANGED <<im_last, im_calls, im_errors>>
    /\ UNCHANGED <<orchVars, validatorVars, dummyVars, concVars, laterVars, pmVars,
                   tmVars, cliVars, svcVars>>

\* the rest of the pass, lines 325-340, and line 342 when the loop is left
interactive_mode_pass ==
    /\ im_pc = "loop_body"
    /\ \E outcome \in CallbackOutcomes :
          LET b == loop_body(im_event, outcome) IN
          /\ im_last' = [kind |-> im_event.kind, text |-> im_event.text,
                         outcome |-> IF b.called THEN outcome ELSE "none",
                         ended |-> b.ended, called |-> b.called,
                         printed |-> b.printed]
          /\ im_pc' = IF b.ended THEN "left" ELSE "prompt_input"
          /\ im_calls' = IF b.called THEN CountUp(im_calls) ELSE im_calls
          /\ im_errors' = IF b.printed = "error" THEN CountUp(im_errors) ELSE im_errors
    /\ UNCHANGED <<im_event, im_eof>>
    /\ UNCHANGED <<orchVars, validatorVars, dummyVars, concVars, laterVars, pmVars,
                   tmVars, cliVars, svcVars>>

NextIM == prompt_input \/ interactive_mode_pass

SpecIM == InitIM /\ [][NextIM]_vars

\* the process keeps running: input() gives something, and the pass it
\* started is made
SpecIMFair == SpecIM /\ WF_vars(prompt_input) /\ WF_vars(interactive_mode_pass)

\* the user asked for the end: exit or quit was entered, an interrupt came,
\* or standard input reached its end
StopAsked ==
    \/ im_last.kind \in {"KeyboardInterrupt", "EOFError"}
    \/ im_last.kind = "line" /\ Lower(im_last.text) \in ExitWords
    \/ im_last.outcome = "KeyboardInterrupt"

\* C30: once exit or quit was entered, an interrupt came or standard input
\* reached its end, interactive_mode eventually leaves its loop; a blank line
\* is skipped without a call of the callback; and an exception raised by the
\* callback is reported and the loop goes on.
C30_LoopEventuallyEnds ==
    /\ [](im_last.kind = "line" /\ Strip(im_last.text) = <<>> => ~im_last.called)
    /\ [](im_last.outcome = "raises" => im_last.printed = "error" /\ im_pc # "left")
    /\ (StopAsked ~> im_pc = "left")

=============================================================================
